---- MODULE Spec2Model ----
(***************************************************************************)
(* TimeBase providers: the subscription-driven streaming engines of the    *)
(* CCXT provider (push, one task per stream) and of the Yahoo Finance       *)
(* provider (one polling loop), and the Yahoo request rate limiter.         *)
(*                                                                          *)
(* Every action is one atomic block of an asyncio task: the code that runs  *)
(* from one suspension point (await / yield) to the next.                   *)
(***************************************************************************)
EXTENDS Integers, Sequences, FiniteSets, TLC

VARIABLES
    provider,                   \* self.config.slug: the provider this process runs
    \* ---- CcxtProvider (providers/ccxt/src/main.py) ----
    ccxt_active_subscriptions,  \* self._active_subscriptions: set of subscription keys
    ccxt_stream_tasks,          \* self._stream_tasks: stream key -> task
    ccxt_stream_queue,          \* self._stream_queue: the messages queued, oldest first
    ccxt_streaming_paused,      \* self._streaming_paused
    ccxt_exchanges,             \* self._exchanges: the exchange ids already loaded
    ccxt_has,                   \* exchange.has: which watch call the exchange offers
    ccxt_workers,               \* the asyncio tasks running _stream_symbol
    ccxt_ingest,                \* the asyncio task running _process_subscriptions
    ccxt_session,               \* stream_realtime_data: "none", "open" or "closed"
    \* ---- YahooFinanceProvider (providers/yahoo-finance/src/main.py) ----
    yf_active_subscriptions,    \* self._active_subscriptions: symbol -> set of intervals
    yf_last_prices,             \* self._last_prices: key -> last data point yielded
    yf_streaming_paused,        \* self._streaming_paused
    yf_consecutive_failures,    \* self._consecutive_failures: symbol -> count
    yf_in_cooldown,             \* time.time() < self._api._rate_limit_until
    yf_loop,                    \* _polling_loop: where it is suspended, and its locals
    yf_ingest,                  \* the task running _process_subscriptions
    yf_session,                 \* stream_realtime_data: "none", "open" or "closed"
    yf_streak,                  \* history: consecutive failed fetches per symbol
    yf_stopped,                 \* history: keys unsubscribed after a point of theirs
                                \* was yielded, and not subscribed again since
    yf_renewed,                 \* history: keys subscribed again after that, with no
                                \* fetch that returned a bar since
    \* ---- YahooFinanceAPI (providers/yahoo-finance/src/main.py) ----
    rl_now,                     \* time.time(), in seconds
    rl_last_request_time,       \* self._last_request_time
    rl_request_count_minute,    \* self._request_count_minute
    rl_minute_reset_time,       \* self._minute_reset_time
    rl_rate_limit_until,        \* self._rate_limit_until
    rl_callers,                 \* the tasks that call fetch_chart_data
    rl_window,                  \* history: an observer's 60 s window and the releases in it
    \* ---- get_historical_data of the provider ----
    hist,                       \* the generator: where it is suspended, and its locals
    \* ---- _polling_loop of the Yahoo provider, with its clock ----
    cadence,                    \* where it is suspended, time.time() and its locals
    \* ---- the watchTicker branch of _stream_symbol ----
    tick,                       \* the latest ticker received and the message built from it
    \* ---- one CcxtProvider object serving two streams at once ----
    shared                      \* the object's attributes, and what each stream received

ccxt_vars == <<ccxt_active_subscriptions, ccxt_stream_tasks, ccxt_stream_queue,
               ccxt_streaming_paused, ccxt_exchanges, ccxt_has, ccxt_workers,
               ccxt_ingest, ccxt_session>>

yf_vars == <<yf_active_subscriptions, yf_last_prices, yf_streaming_paused,
             yf_consecutive_failures, yf_in_cooldown, yf_loop, yf_ingest, yf_session,
             yf_streak, yf_stopped, yf_renewed>>

rl_vars == <<rl_now, rl_last_request_time, rl_request_count_minute,
             rl_minute_reset_time, rl_rate_limit_until, rl_callers, rl_window>>

vars == <<provider, ccxt_vars, yf_vars, rl_vars, hist, cadence, tick, shared>>

\* What the actions of one component leave alone: the other components.
not_ccxt == <<provider, yf_vars, rl_vars, hist, cadence, tick, shared>>
not_yf == <<provider, ccxt_vars, rl_vars, hist, cadence, tick, shared>>
not_rl == <<provider, ccxt_vars, yf_vars, hist, cadence, tick, shared>>
not_hist == <<provider, ccxt_vars, yf_vars, rl_vars, cadence, tick, shared>>
not_cadence == <<provider, ccxt_vars, yf_vars, rl_vars, hist, tick, shared>>
not_tick == <<provider, ccxt_vars, yf_vars, rl_vars, hist, cadence, shared>>
not_shared == <<provider, ccxt_vars, yf_vars, rl_vars, hist, cadence, tick>>

\* The variables an action of the worker tasks leaves alone.
ccxt_but_workers == <<ccxt_active_subscriptions, ccxt_stream_tasks, ccxt_stream_queue,
                      ccxt_streaming_paused, ccxt_exchanges, ccxt_has, ccxt_ingest,
                      ccxt_session>>

-----------------------------------------------------------------------------
(* Bounds of the model *)

\* Task objects that may exist at once (live, or cancelled and not yet run again).
MaxWorkers == 2
\* Messages the model lets the queue hold before it stops the producers.
MaxQueue == 2
\* Historical requests: the largest timestamp, the longest list of bars the
\* upstream returns to one request, the largest limit a caller passes, and the
\* number of points a generator is followed for.
MaxTimestamp == 2
MaxPageLen == 3
MaxLimit == 2
MaxYielded == 4
\* The clock reading at which the YahooFinanceAPI object is constructed, and the
\* number of seconds after it the limiter is followed for.
StartTime == 1000
Horizon == 90
\* The seconds the polling loop is followed for after the longest poll delay
\* of its keys has passed.
CadenceSlack == 10
\* The highest price and volume a ticker carries.
MaxPrice == 2

-----------------------------------------------------------------------------
(* CCXT: symbols, keys *)

\* A symbol string: the text before the first ':' (prefix), whether it has a
\* ':' at all, and the text after it.
CcxtSymbol(colon, prefix, raw) == [colon |-> colon, prefix |-> prefix, raw |-> raw]

SymBinanceX == CcxtSymbol(TRUE, "BINANCE", "X")     \* "BINANCE:X"
SymbinanceX == CcxtSymbol(TRUE, "binance", "X")     \* "binance:X"
SymBinanceZ == CcxtSymbol(TRUE, "BINANCE", "Z")     \* "BINANCE:Z", no such market
SymNoColon  == CcxtSymbol(FALSE, "", "X")           \* "X"
SymUnknown  == CcxtSymbol(TRUE, "NOPE", "X")        \* "NOPE:X", no such exchange
SymEmpty    == CcxtSymbol(FALSE, "", "")            \* "" or missing

CcxtSymbols == {SymBinanceX, SymbinanceX, SymBinanceZ, SymNoColon, SymUnknown, SymEmpty}
CcxtIntervals == {"1m", "5m"}
Actions == {"SUBSCRIBE", "UNSUBSCRIBE", "PAUSE", "RESUME"}

\* str.lower() and str.upper() on the exchange prefixes above.
Lower(s) == CASE s = "BINANCE" -> "binance"
              [] s = "NOPE"    -> "nope"
              [] OTHER         -> s
Upper(s) == CASE s = "binance" -> "BINANCE"
              [] s = "nope"    -> "NOPE"
              [] OTHER         -> s

\* The exchanges the ccxt package has a class for.
CcxtKnownExchanges == {"binance"}
\* exchange.markets of a loaded exchange: the market ids it lists.
CcxtMarkets == {"X"}

\* subscription_key = f"{symbol}|{interval}"
SubscriptionKey(symbol, interval) == <<symbol, interval>>

\* _parse_symbol: ok is FALSE where it raises ValueError.
ParseSymbol(symbol) ==
    IF ~symbol.colon \/ symbol.prefix = "" \/ symbol.raw = ""
    THEN [ok |-> FALSE, exchange_id |-> "", raw_symbol |-> ""]
    ELSE [ok |-> TRUE, exchange_id |-> Lower(symbol.prefix), raw_symbol |-> symbol.raw]

\* stream_key = f"{exchange_id}:{raw_symbol}:{interval}"
StreamKey(symbol, interval) ==
    <<ParseSymbol(symbol).exchange_id, ParseSymbol(symbol).raw_symbol, interval>>

-----------------------------------------------------------------------------
(* CCXT: the worker tasks *)

WorkerIds == 1..MaxWorkers

\* A task slot no task object occupies.
NoWorker == [st |-> "free", pc |-> "-", cancel |-> FALSE,
             symbol |-> SymEmpty, interval |-> "-"]

\* asyncio.create_task(self._stream_symbol(...)): scheduled, not yet run.
NewWorker(symbol, interval) ==
    [st |-> "live", pc |-> "created", cancel |-> FALSE,
     symbol |-> symbol, interval |-> interval]

\* task.cancel(): the request is recorded; the task runs no more code of its own
\* (the event loop raises CancelledError in it when it next schedules it).
CancelledWorker == [st |-> "live", pc |-> "-", cancel |-> TRUE,
                    symbol |-> SymEmpty, interval |-> "-"]

FreeIds == {w \in WorkerIds : ccxt_workers[w].st = "free"}
LiveIds == {w \in WorkerIds : ccxt_workers[w].st = "live"}
\* A task that can still run code of _stream_symbol: not finished, not cancelled.
RunnableIds == {w \in LiveIds : ~ccxt_workers[w].cancel}

\* The worker's subscription_key argument.
WorkerKey(w) == SubscriptionKey(ccxt_workers[w].symbol, ccxt_workers[w].interval)

\* A loop top that does not look at the pause flag.
LoopTopNoPauseTest(w, active, paused) ==
    IF WorkerKey(w) \notin active THEN "exit"
    ELSE IF ccxt_has = "watchOHLCV" THEN "watch_ohlcv"
    ELSE IF ccxt_has = "watchTicker" THEN "watch_ticker"
    ELSE "sleep_poll"

\* The top of the while loop of _stream_symbol up to its next await: where the
\* task suspends next ("exit" where it returns).
LoopTop(w, active, paused) ==
    IF WorkerKey(w) \notin active THEN "exit"
    ELSE IF paused THEN "sleep_paused"
    ELSE IF ccxt_has = "watchOHLCV" THEN "watch_ohlcv"
    ELSE IF ccxt_has = "watchTicker" THEN "watch_ticker"
    ELSE "sleep_poll"

\* The worker moves to its next suspension point, or ends.
Advance(w, to) ==
    IF to = "exit"
    THEN [ccxt_workers EXCEPT ![w] = NoWorker]
    ELSE [ccxt_workers EXCEPT ![w].pc = to]

\* asyncio.Queue(): maxsize 0, which asyncio reads as "no limit".
QueueMaxsize == 0
\* asyncio.Queue.full()
QueueFull(q) == QueueMaxsize > 0 /\ Len(q) >= QueueMaxsize

\* The message a worker builds from one upstream result.
Message(w, pc) ==
    [symbol |-> <<Upper(ParseSymbol(ccxt_workers[w].symbol).exchange_id),
                  ParseSymbol(ccxt_workers[w].symbol).raw_symbol>>,
     interval |-> IF pc = "watch_ticker" THEN "tick" ELSE ccxt_workers[w].interval]

\* put_nowait: appends, or raises QueueFull (the message is dropped).
PutNowait(q, m) == IF QueueFull(q) THEN q ELSE Append(q, m)

\* First run of a task: the queue test, _resolve_symbol (raises ValueError for a
\* market the exchange does not list, which ends the task), then the loop.
WorkerStart(w) ==
    /\ UNCHANGED not_ccxt
    /\ w \in RunnableIds
    /\ ccxt_workers[w].pc = "created"
    /\ ccxt_workers' =
         IF ParseSymbol(ccxt_workers[w].symbol).raw_symbol \notin CcxtMarkets
         THEN [ccxt_workers EXCEPT ![w] = NoWorker]
         ELSE Advance(w, LoopTop(w, ccxt_active_subscriptions, ccxt_streaming_paused))
    /\ UNCHANGED ccxt_but_workers

\* A sleep of the loop ends (pause sleep, poll sleep, sleep after an error).
WorkerWake(w) ==
    /\ UNCHANGED not_ccxt
    /\ w \in RunnableIds
    /\ ccxt_workers[w].pc \in {"sleep_paused", "sleep_poll", "sleep_error"}
    /\ ccxt_workers' = Advance(w, LoopTop(w, ccxt_active_subscriptions, ccxt_streaming_paused))
    /\ UNCHANGED ccxt_but_workers

\* watch_ohlcv / watch_ticker returns: the message is built and published, and
\* the loop runs to its next await.
WorkerPublish(w) ==
    /\ UNCHANGED not_ccxt
    /\ w \in RunnableIds
    /\ ccxt_workers[w].pc \in {"watch_ohlcv", "watch_ticker"}
    /\ Len(ccxt_stream_queue) < MaxQueue
    /\ ccxt_stream_queue' = PutNowait(ccxt_stream_queue, Message(w, ccxt_workers[w].pc))
    /\ ccxt_workers' = Advance(w, LoopTop(w, ccxt_active_subscriptions, ccxt_streaming_paused))
    /\ UNCHANGED <<ccxt_active_subscriptions, ccxt_stream_tasks,
                   ccxt_streaming_paused, ccxt_exchanges, ccxt_has, ccxt_ingest,
                   ccxt_session>>

\* The watch call (or the unpacking of its result) raises: logged, then
\* asyncio.sleep(self._poll_interval_seconds) inside the except clause.
WorkerError(w) ==
    /\ UNCHANGED not_ccxt
    /\ w \in RunnableIds
    /\ ccxt_workers[w].pc \in {"watch_ohlcv", "watch_ticker"}
    /\ ccxt_workers' = Advance(w, "sleep_error")
    /\ UNCHANGED ccxt_but_workers

\* The event loop delivers a requested cancellation: CancelledError is raised
\* at the await the task is suspended in (or the task never starts), and the
\* task ends, whichever await that is.
WorkerCancelled(w) ==
    /\ UNCHANGED not_ccxt
    /\ w \in LiveIds
    /\ ccxt_workers[w].cancel
    /\ ccxt_workers' = [ccxt_workers EXCEPT ![w] = NoWorker]
    /\ UNCHANGED ccxt_but_workers

-----------------------------------------------------------------------------
(* CCXT: _process_subscriptions and the handlers it awaits *)

\* Control messages on the well-formed symbols of a listed market: two
\* spellings of one symbol, two intervals.
CcxtMessages ==
    [action : Actions, symbol : {SymBinanceX, SymbinanceX}, interval : CcxtIntervals]

CcxtMessagesOneInterval == {m \in CcxtMessages : m.interval = "1m"}

IngestIdle == [pc |-> "idle", symbol |-> SymEmpty, interval |-> "-"]
IngestEnded(how) == [pc |-> how, symbol |-> SymEmpty, interval |-> "-"]

Remove(f, k) == [x \in DOMAIN f \ {k} |-> f[x]]

\* The end of _subscribe_symbol: one task per stream key. w is the task object
\* create_task returns when a task is created.
CreateStreamTask(symbol, interval, w) ==
    IF StreamKey(symbol, interval) \notin DOMAIN ccxt_stream_tasks
    THEN /\ w \in FreeIds
         /\ \A v \in FreeIds : w <= v
         /\ ccxt_stream_tasks' = ccxt_stream_tasks @@ (StreamKey(symbol, interval) :> w)
         /\ ccxt_workers' = [ccxt_workers EXCEPT ![w] = NewWorker(symbol, interval)]
    ELSE /\ w = 0
         /\ UNCHANGED <<ccxt_stream_tasks, ccxt_workers>>

\* _subscribe_symbol without its early return for a key that is already active.
CcxtSubscribeNoReturn(symbol, interval) ==
    /\ ccxt_active_subscriptions' =
         ccxt_active_subscriptions \cup {SubscriptionKey(symbol, interval)}
    /\ UNCHANGED ccxt_exchanges
    /\ IF ~ParseSymbol(symbol).ok
          \/ (/\ ParseSymbol(symbol).exchange_id \notin ccxt_exchanges
              /\ ParseSymbol(symbol).exchange_id \notin CcxtKnownExchanges)
       THEN /\ ccxt_ingest' = IngestEnded("failed")
            /\ UNCHANGED <<ccxt_stream_tasks, ccxt_workers>>
       ELSE IF ParseSymbol(symbol).exchange_id \notin ccxt_exchanges
       THEN /\ ccxt_ingest' = [pc |-> "loading", symbol |-> symbol, interval |-> interval]
            /\ UNCHANGED <<ccxt_stream_tasks, ccxt_workers>>
       ELSE /\ UNCHANGED ccxt_ingest
            /\ \E w \in WorkerIds \cup {0} : CreateStreamTask(symbol, interval, w)

\* _subscribe_symbol up to its first suspension. A key already active returns at
\* once; otherwise the key is recorded, then _parse_symbol and _get_exchange run:
\* either may raise ValueError, which leaves _process_subscriptions (it catches
\* only CancelledError); an exchange not yet loaded suspends in load_markets.
CcxtSubscribe(symbol, interval) ==
    IF SubscriptionKey(symbol, interval) \in ccxt_active_subscriptions
    THEN UNCHANGED <<ccxt_active_subscriptions, ccxt_stream_tasks, ccxt_workers,
                     ccxt_ingest, ccxt_exchanges>>
    ELSE /\ ccxt_active_subscriptions' =
              ccxt_active_subscriptions \cup {SubscriptionKey(symbol, interval)}
         /\ UNCHANGED ccxt_exchanges
         /\ IF ~ParseSymbol(symbol).ok
               \/ (/\ ParseSymbol(symbol).exchange_id \notin ccxt_exchanges
                   /\ ParseSymbol(symbol).exchange_id \notin CcxtKnownExchanges)
            THEN /\ ccxt_ingest' = IngestEnded("failed")
                 /\ UNCHANGED <<ccxt_stream_tasks, ccxt_workers>>
            ELSE IF ParseSymbol(symbol).exchange_id \notin ccxt_exchanges
            THEN /\ ccxt_ingest' = [pc |-> "loading", symbol |-> symbol, interval |-> interval]
                 /\ UNCHANGED <<ccxt_stream_tasks, ccxt_workers>>
            ELSE /\ UNCHANGED ccxt_ingest
                 /\ \E w \in WorkerIds \cup {0} : CreateStreamTask(symbol, interval, w)

\* _unsubscribe_symbol: the key is discarded first; _parse_symbol may then raise.
CcxtUnsubscribe(symbol, interval) ==
    /\ ccxt_active_subscriptions' =
         ccxt_active_subscriptions \ {SubscriptionKey(symbol, interval)}
    /\ UNCHANGED ccxt_exchanges
    /\ IF ~ParseSymbol(symbol).ok
       THEN /\ ccxt_ingest' = IngestEnded("failed")
            /\ UNCHANGED <<ccxt_stream_tasks, ccxt_workers>>
       ELSE /\ UNCHANGED ccxt_ingest
            /\ IF StreamKey(symbol, interval) \in DOMAIN ccxt_stream_tasks
               THEN /\ ccxt_stream_tasks' = Remove(ccxt_stream_tasks, StreamKey(symbol, interval))
                    /\ ccxt_workers' =
                         [ccxt_workers EXCEPT
                            ![ccxt_stream_tasks[StreamKey(symbol, interval)]] = CancelledWorker]
               ELSE UNCHANGED <<ccxt_stream_tasks, ccxt_workers>>

\* A control loop whose PAUSE also unsubscribes the key the message carries.
CcxtProcessSubscriptionsPauseUnsubscribes(msg) ==
    /\ UNCHANGED not_ccxt
    /\ ccxt_session = "open"
    /\ ccxt_ingest.pc = "idle"
    /\ UNCHANGED <<ccxt_stream_queue, ccxt_has, ccxt_session>>
    /\ IF msg.symbol = SymEmpty
       THEN UNCHANGED <<ccxt_active_subscriptions, ccxt_stream_tasks, ccxt_workers,
                        ccxt_ingest, ccxt_exchanges, ccxt_streaming_paused>>
       ELSE CASE msg.action = "SUBSCRIBE" ->
                    /\ CcxtSubscribe(msg.symbol, msg.interval)
                    /\ UNCHANGED ccxt_streaming_paused
              [] msg.action = "UNSUBSCRIBE" ->
                    /\ CcxtUnsubscribe(msg.symbol, msg.interval)
                    /\ UNCHANGED ccxt_streaming_paused
              [] msg.action = "PAUSE" ->
                    /\ ccxt_streaming_paused' = TRUE
                    /\ CcxtUnsubscribe(msg.symbol, msg.interval)
              [] msg.action = "RESUME" ->
                    /\ ccxt_streaming_paused' = FALSE
                    /\ UNCHANGED <<ccxt_active_subscriptions, ccxt_stream_tasks,
                                   ccxt_workers, ccxt_ingest, ccxt_exchanges>>

\* One message of the control input, read by _process_subscriptions.
CcxtProcessSubscriptions(msg) ==
    /\ UNCHANGED not_ccxt
    /\ ccxt_session = "open"
    /\ ccxt_ingest.pc = "idle"
    /\ UNCHANGED <<ccxt_stream_queue, ccxt_has, ccxt_session>>
    /\ IF msg.symbol = SymEmpty
       THEN UNCHANGED <<ccxt_active_subscriptions, ccxt_stream_tasks, ccxt_workers,
                        ccxt_ingest, ccxt_exchanges, ccxt_streaming_paused>>
       ELSE CASE msg.action = "SUBSCRIBE" ->
                    /\ CcxtSubscribe(msg.symbol, msg.interval)
                    /\ UNCHANGED ccxt_streaming_paused
              [] msg.action = "UNSUBSCRIBE" ->
                    /\ CcxtUnsubscribe(msg.symbol, msg.interval)
                    /\ UNCHANGED ccxt_streaming_paused
              [] msg.action = "PAUSE" ->
                    /\ ccxt_streaming_paused' = TRUE
                    /\ UNCHANGED <<ccxt_active_subscriptions, ccxt_stream_tasks,
                                   ccxt_workers, ccxt_ingest, ccxt_exchanges>>
              [] msg.action = "RESUME" ->
                    /\ ccxt_streaming_paused' = FALSE
                    /\ UNCHANGED <<ccxt_active_subscriptions, ccxt_stream_tasks,
                                   ccxt_workers, ccxt_ingest, ccxt_exchanges>>

\* load_markets returns (ok) or raises: _get_exchange caches the exchange and
\* _subscribe_symbol goes on to create the task, or the exception leaves
\* _process_subscriptions.
CcxtLoadMarkets(ok) ==
    /\ UNCHANGED not_ccxt
    /\ ccxt_session = "open"
    /\ ccxt_ingest.pc = "loading"
    /\ UNCHANGED <<ccxt_active_subscriptions, ccxt_stream_queue, ccxt_streaming_paused,
                   ccxt_has, ccxt_session>>
    /\ IF ok
       THEN /\ ccxt_exchanges' =
                 ccxt_exchanges \cup {ParseSymbol(ccxt_ingest.symbol).exchange_id}
            /\ ccxt_ingest' = IngestIdle
            /\ \E w \in WorkerIds \cup {0} :
                 CreateStreamTask(ccxt_ingest.symbol, ccxt_ingest.interval, w)
       ELSE /\ ccxt_ingest' = IngestEnded("failed")
            /\ UNCHANGED <<ccxt_exchanges, ccxt_stream_tasks, ccxt_workers>>

\* A control loop whose end ends the stream: the consumer loop leaves, and its
\* finally block cancels the stream tasks.
CcxtEndOfInputEndsStream ==
    /\ UNCHANGED not_ccxt
    /\ ccxt_session = "open"
    /\ ccxt_ingest.pc = "idle"
    /\ ccxt_ingest' = IngestEnded("done")
    /\ ccxt_session' = "closed"
    /\ ccxt_workers' =
         [w \in WorkerIds |->
            IF \E k \in DOMAIN ccxt_stream_tasks : ccxt_stream_tasks[k] = w
            THEN CancelledWorker
            ELSE ccxt_workers[w]]
    /\ ccxt_stream_tasks' = <<>>
    /\ UNCHANGED <<ccxt_active_subscriptions, ccxt_stream_queue,
                   ccxt_streaming_paused, ccxt_exchanges, ccxt_has>>

\* The control input ends: the async for loop, and the task, finish.
CcxtEndOfInput ==
    /\ UNCHANGED not_ccxt
    /\ ccxt_session = "open"
    /\ ccxt_ingest.pc = "idle"
    /\ ccxt_ingest' = IngestEnded("done")
    /\ UNCHANGED <<ccxt_active_subscriptions, ccxt_stream_tasks, ccxt_stream_queue,
                   ccxt_streaming_paused, ccxt_exchanges, ccxt_has, ccxt_workers,
                   ccxt_session>>

-----------------------------------------------------------------------------
(* CCXT: stream_realtime_data *)

\* A consumer opens a stream: a new queue, and the control-ingest task.
CcxtSessionOpen ==
    /\ UNCHANGED not_ccxt
    /\ provider = "ccxt"
    /\ ccxt_session = "none"
    /\ ccxt_session' = "open"
    /\ ccxt_stream_queue' = <<>>
    /\ ccxt_ingest' = IngestIdle
    /\ UNCHANGED <<ccxt_active_subscriptions, ccxt_stream_tasks, ccxt_streaming_paused,
                   ccxt_exchanges, ccxt_has, ccxt_workers>>

\* A consumer opens a stream on a provider whose earlier stream was closed:
\* stream_realtime_data runs again on the same object (lines 139-140).
CcxtSessionReopen ==
    /\ UNCHANGED not_ccxt
    /\ ccxt_session = "closed"
    /\ ccxt_session' = "open"
    /\ ccxt_stream_queue' = <<>>
    /\ ccxt_ingest' = IngestIdle
    /\ UNCHANGED <<ccxt_active_subscriptions, ccxt_stream_tasks, ccxt_streaming_paused,
                   ccxt_exchanges, ccxt_has, ccxt_workers>>

\* The consumer loop takes the oldest message and yields it.
CcxtConsumerGet ==
    /\ UNCHANGED not_ccxt
    /\ ccxt_session = "open"
    /\ ccxt_stream_queue # <<>>
    /\ ccxt_stream_queue' = Tail(ccxt_stream_queue)
    /\ UNCHANGED <<ccxt_active_subscriptions, ccxt_stream_tasks, ccxt_streaming_paused,
                   ccxt_exchanges, ccxt_has, ccxt_workers, ccxt_ingest, ccxt_session>>

\* wait_for times out on an empty queue (lines 149-150): the loop continues.
CcxtConsumerTimeout ==
    /\ ccxt_session = "open"
    /\ ccxt_stream_queue = <<>>
    /\ UNCHANGED vars

\* The consumer closes the stream: the finally block. A control-ingest task
\* that ended with an exception re-raises it at "await subscription_task", before
\* the stream tasks are cancelled.
CcxtSessionClose ==
    /\ UNCHANGED not_ccxt
    /\ ccxt_session = "open"
    /\ ccxt_session' = "closed"
    /\ UNCHANGED <<ccxt_active_subscriptions, ccxt_stream_queue, ccxt_streaming_paused,
                   ccxt_exchanges, ccxt_has>>
    /\ IF ccxt_ingest.pc = "failed"
       THEN UNCHANGED <<ccxt_ingest, ccxt_stream_tasks, ccxt_workers>>
       ELSE /\ ccxt_ingest' = IngestEnded("done")
            /\ ccxt_workers' =
                 [w \in WorkerIds |->
                    IF \E k \in DOMAIN ccxt_stream_tasks : ccxt_stream_tasks[k] = w
                    THEN CancelledWorker
                    ELSE ccxt_workers[w]]
            /\ ccxt_stream_tasks' = <<>>

-----------------------------------------------------------------------------
(* Yahoo: the registry, a dict in insertion order whose values are sets *)

YfSymbols == {"AAA", "BBB"}
YfIntervals == {"1m", "5m"}
\* msg.get("symbol", "") of a message without a symbol.
YfNoSymbol == ""

\* str.upper() on the symbol texts of the control messages.
StrUpper(s) == CASE s = "aaa" -> "AAA"
                 [] s = "bbb" -> "BBB"
                 [] OTHER     -> s

\* key = f"{symbol}:{interval}"
YfKey(symbol, interval) == <<symbol, interval>>

RegSymbols(reg) == {reg[n].symbol : n \in 1..Len(reg)}
RegIndex(reg, symbol) == CHOOSE n \in 1..Len(reg) : reg[n].symbol = symbol
RegIntervals(reg, symbol) ==
    IF symbol \in RegSymbols(reg) THEN reg[RegIndex(reg, symbol)].intervals ELSE {}
RegDelete(reg, symbol) ==
    SelectSeq(reg, LAMBDA e : e.symbol # symbol)

\* Lines 396-399.
RegSubscribe(reg, symbol, interval) ==
    IF symbol \notin RegSymbols(reg)
    THEN Append(reg, [symbol |-> symbol, intervals |-> {interval}])
    ELSE [reg EXCEPT ![RegIndex(reg, symbol)].intervals = @ \cup {interval}]

\* An unsubscribe that keeps the symbol whose last interval it discards.
RegUnsubscribeKeepsSymbol(reg, symbol, interval) ==
    IF symbol \notin RegSymbols(reg) THEN reg
    ELSE [reg EXCEPT ![RegIndex(reg, symbol)].intervals = @ \ {interval}]

\* Lines 401-405.
RegUnsubscribe(reg, symbol, interval) ==
    IF symbol \notin RegSymbols(reg) THEN reg
    ELSE IF reg[RegIndex(reg, symbol)].intervals \ {interval} = {}
    THEN RegDelete(reg, symbol)
    ELSE [reg EXCEPT ![RegIndex(reg, symbol)].intervals = @ \ {interval}]

-----------------------------------------------------------------------------
(* Yahoo: data points, ChangeFilter, CircuitBreaker *)

\* One bar as fetch_chart_data parses it.
Quote(o, h, l, c, v, ts) ==
    [open |-> o, high |-> h, low |-> l, close |-> c, volume |-> v, timestamp |-> ts]

QuoteBase   == Quote(1, 1, 1, 1, 0, 1)
QuoteVolume == Quote(1, 1, 1, 1, 1, 1)   \* differs from QuoteBase in volume only
QuoteLater  == Quote(1, 1, 1, 1, 0, 2)   \* differs from QuoteBase in timestamp only

\* metadata.poll_time: the clock readings a data point may carry.
PollTimes == {1, 2}

\* The dict _fetch_latest_price returns for the latest bar.
DataPoint(symbol, interval, q, poll_time) ==
    [symbol |-> symbol, interval |-> interval, timestamp |-> q.timestamp,
     open |-> q.open, high |-> q.high, low |-> q.low, close |-> q.close,
     volume |-> q.volume, poll_time |-> poll_time]

\* _has_price_changed without its comparison of the volumes.
HasPriceChangedNoVolume(old, new) ==
    \/ old.open # new.open
    \/ old.high # new.high
    \/ old.low # new.low
    \/ old.close # new.close
    \/ old.timestamp # new.timestamp

\* _has_price_changed
HasPriceChanged(old, new) ==
    \/ old.open # new.open
    \/ old.high # new.high
    \/ old.low # new.low
    \/ old.close # new.close
    \/ old.volume # new.volume
    \/ old.timestamp # new.timestamp

\* self._max_consecutive_failures
MaxConsecutiveFailures == 5

\* A breaker that passes a symbol over only beyond the threshold.
BreakerTrippedLate(failures) == failures > MaxConsecutiveFailures

\* Line 463: the test that passes a symbol over.
BreakerTripped(failures) == failures >= MaxConsecutiveFailures

\* The history yf_streak[symbol]: the number of failed fetches of the symbol in
\* a row, up to the threshold; then StreakSkipped once the check that follows
\* the threshold-th failure has passed the symbol over, and StreakBeyond once
\* the run of failures has gone on past the threshold.
StreakSkipped == MaxConsecutiveFailures + 1
StreakBeyond == MaxConsecutiveFailures + 2
StreakAfterFailure(n) == IF n < MaxConsecutiveFailures THEN n + 1 ELSE StreakBeyond
StreakAfterSkip(n) == IF n = MaxConsecutiveFailures THEN StreakSkipped ELSE n

-----------------------------------------------------------------------------
(* Yahoo: _polling_loop *)

\* The loop is suspended (at an await or at its yield): other tasks may run.
YfSuspended ==
    yf_loop.pc \in {"sleep_paused", "sleep_cooldown", "sleep_idle", "sleep_cycle",
                    "acquire", "request", "yield", "sleep_symbol"}

\* The locals of a loop that is not inside a cycle.
LoopAt(pc) ==
    [pc |-> pc, subscriptions |-> <<>>, i |-> 0, used |-> 0, seen |-> {},
     symbol |-> "-", interval |-> "-", point |-> <<>>, skipped |-> {}]
\* (point is the local data_point: the result of the latest fetch of the cycle;
\* skipped is history: the symbols the breaker has passed over in this cycle.)

\* subscriptions = dict(self._active_subscriptions): a shallow copy. Each entry
\* holds the registry's own set object: "live" while the registry still holds
\* that object, "dead" once the registry deleted it (it is then empty for good).
Snapshot(reg) == [n \in 1..Len(reg) |-> [symbol |-> reg[n].symbol, ref |-> "live"]]

MarkDeleted(subs, reg) ==
    [n \in 1..Len(subs) |->
        IF subs[n].symbol \in RegSymbols(reg) THEN subs[n]
        ELSE [subs[n] EXCEPT !.ref = "dead"]]

\* The set object the snapshot's n-th entry holds, as it is now.
SnapshotSet(n) ==
    IF yf_loop.subscriptions[n].ref = "live"
    THEN RegIntervals(yf_active_subscriptions, yf_loop.subscriptions[n].symbol)
    ELSE {}

\* iter(intervals): the set iterator remembers the size of the set.
EnterSymbol(loop, n, size) ==
    [loop EXCEPT !.pc = "iter", !.i = n, !.used = size, !.seen = {},
                 !.symbol = loop.subscriptions[n].symbol, !.interval = "-",
                 !.point = <<>>]

\* The top of the while loop, entered when a sleep ends (and when the generator
\* is first run), up to the for loops.
YfLoopTop ==
    /\ UNCHANGED <<not_yf, yf_stopped, yf_renewed>>
    /\ yf_session = "open"
    /\ yf_loop.pc \in {"start", "sleep_paused", "sleep_cooldown", "sleep_idle", "sleep_cycle"}
    /\ yf_loop' =
         IF yf_streaming_paused THEN LoopAt("sleep_paused")
         ELSE IF yf_in_cooldown THEN LoopAt("sleep_cooldown")
         ELSE IF yf_active_subscriptions = <<>> THEN LoopAt("sleep_idle")
         ELSE EnterSymbol([LoopAt("iter") EXCEPT
                              !.subscriptions = Snapshot(yf_active_subscriptions)],
                          1, Cardinality(yf_active_subscriptions[1].intervals))
    /\ UNCHANGED <<yf_active_subscriptions, yf_last_prices, yf_streaming_paused,
                   yf_consecutive_failures, yf_in_cooldown, yf_ingest, yf_session,
                   yf_streak>>

\* A caller that goes on to the request whether or not the cooldown is active.
AcquirePcNoCooldown(in_cooldown) == "request"

\* _wait_for_rate_limit, as far as the cooldown goes: a caller that finds the
\* cooldown active sleeps until it is over before it goes on to the request.
AcquirePc(in_cooldown) == IF in_cooldown THEN "acquire" ELSE "request"

\* One step of the two for loops, which run without suspending until a fetch
\* starts: the set iterator's next() raises RuntimeError when the set changed
\* size; a key whose poll delay has not elapsed (due = FALSE) is passed over; a
\* symbol at the failure threshold is passed over and its counter reset.
YfIterate(due) ==
    /\ UNCHANGED <<not_yf, yf_stopped, yf_renewed>>
    /\ yf_loop.pc = "iter"
    /\ UNCHANGED <<yf_active_subscriptions, yf_last_prices, yf_streaming_paused,
                   yf_in_cooldown, yf_ingest, yf_session>>
    /\ IF Cardinality(SnapshotSet(yf_loop.i)) # yf_loop.used
       THEN /\ yf_loop' = LoopAt("crashed")
            /\ UNCHANGED <<yf_consecutive_failures, yf_streak>>
       ELSE IF SnapshotSet(yf_loop.i) \ yf_loop.seen = {}
       THEN /\ yf_loop' =
                 IF yf_loop.i < Len(yf_loop.subscriptions)
                 THEN EnterSymbol(yf_loop, yf_loop.i + 1,
                                  Cardinality(SnapshotSet(yf_loop.i + 1)))
                 ELSE LoopAt("sleep_cycle")
            /\ UNCHANGED <<yf_consecutive_failures, yf_streak>>
       ELSE \E interval \in SnapshotSet(yf_loop.i) \ yf_loop.seen :
              IF ~due
              THEN /\ yf_loop' = [yf_loop EXCEPT !.seen = @ \cup {interval}]
                   /\ UNCHANGED <<yf_consecutive_failures, yf_streak>>
              ELSE IF BreakerTripped(yf_consecutive_failures[yf_loop.symbol])
              THEN /\ yf_loop' = [yf_loop EXCEPT !.seen = @ \cup {interval},
                                                !.skipped = @ \cup {yf_loop.symbol}]
                   /\ yf_consecutive_failures' =
                        [yf_consecutive_failures EXCEPT ![yf_loop.symbol] = 0]
                   /\ yf_streak' = [yf_streak EXCEPT ![yf_loop.symbol] = StreakAfterSkip(@)]
              ELSE /\ yf_loop' = [yf_loop EXCEPT !.seen = @ \cup {interval},
                                                !.interval = interval,
                                                !.pc = AcquirePc(yf_in_cooldown)]
                   /\ UNCHANGED <<yf_consecutive_failures, yf_streak>>

\* The cooldown sleep of _wait_for_rate_limit ends: the cooldown is over.
YfAcquired ==
    /\ UNCHANGED <<not_yf, yf_stopped, yf_renewed>>
    /\ yf_loop.pc = "acquire"
    /\ yf_loop' = [yf_loop EXCEPT !.pc = "request"]
    /\ yf_in_cooldown' = FALSE
    /\ UNCHANGED <<yf_active_subscriptions, yf_last_prices, yf_streaming_paused,
                   yf_consecutive_failures, yf_ingest, yf_session, yf_streak>>

\* The request returns bars, the latest of them q: lines 471-476 and 480.
YfResponseData(q, poll_time) ==
    /\ UNCHANGED <<not_yf, yf_stopped>>
    /\ yf_renewed' = yf_renewed \ {YfKey(yf_loop.symbol, yf_loop.interval)}
    /\ yf_loop.pc = "request"
    /\ LET key == YfKey(yf_loop.symbol, yf_loop.interval)
           data_point == DataPoint(yf_loop.symbol, yf_loop.interval, q, poll_time)
       IN IF key \notin DOMAIN yf_last_prices
             \/ HasPriceChanged(yf_last_prices[key], data_point)
          THEN /\ yf_last_prices' =
                    [k \in DOMAIN yf_last_prices \cup {key} |->
                        IF k = key THEN data_point ELSE yf_last_prices[k]]
               /\ yf_consecutive_failures' =
                    [yf_consecutive_failures EXCEPT ![yf_loop.symbol] = 0]
               /\ yf_loop' = [yf_loop EXCEPT !.pc = "yield", !.point = data_point]
          ELSE /\ yf_loop' = [yf_loop EXCEPT !.pc = "sleep_symbol", !.point = data_point]
               /\ UNCHANGED <<yf_last_prices, yf_consecutive_failures>>
    /\ yf_streak' = [yf_streak EXCEPT ![yf_loop.symbol] = 0]
    /\ UNCHANGED <<yf_active_subscriptions, yf_streaming_paused, yf_in_cooldown,
                   yf_ingest, yf_session>>

\* A loop that counts a failed fetch against every symbol.
FetchFailedAllSymbols ==
    /\ yf_consecutive_failures' =
         [s \in DOMAIN yf_consecutive_failures |-> yf_consecutive_failures[s] + 1]
    /\ yf_streak' = [yf_streak EXCEPT ![yf_loop.symbol] = StreakAfterFailure(@)]
    /\ yf_loop' = [yf_loop EXCEPT !.pc = "sleep_symbol", !.point = <<>>]

\* A loop that lets a failed fetch end it.
FetchFailedPropagates ==
    /\ yf_consecutive_failures' =
         [yf_consecutive_failures EXCEPT ![yf_loop.symbol] = @ + 1]
    /\ yf_streak' = [yf_streak EXCEPT ![yf_loop.symbol] = StreakAfterFailure(@)]
    /\ yf_loop' = LoopAt("crashed")

\* What the loop does with a fetch that gave no data point: lines 477-485.
FetchFailed ==
    /\ yf_consecutive_failures' =
         [yf_consecutive_failures EXCEPT ![yf_loop.symbol] = @ + 1]
    /\ yf_streak' = [yf_streak EXCEPT ![yf_loop.symbol] = StreakAfterFailure(@)]
    /\ yf_loop' = [yf_loop EXCEPT !.pc = "sleep_symbol", !.point = <<>>]

\* fetch_chart_data returns None (a status other than 200 and 429, no result,
\* no timestamps, a request error), or returns no bar.
YfResponseNone(failing) ==
    /\ UNCHANGED <<not_yf, yf_stopped, yf_renewed>>
    /\ yf_loop.pc = "request"
    /\ yf_loop.symbol \in failing
    /\ FetchFailed
    /\ UNCHANGED <<yf_active_subscriptions, yf_last_prices, yf_streaming_paused,
                   yf_in_cooldown, yf_ingest, yf_session>>

\* _handle_429: a cooldown of 120 to 180 s starts.
Handle429(in_cooldown) == TRUE

\* The response is 429: _handle_429, then fetch_chart_data returns None.
YfResponseThrottled ==
    /\ UNCHANGED <<not_yf, yf_stopped, yf_renewed>>
    /\ yf_loop.pc = "request"
    /\ yf_in_cooldown' = Handle429(yf_in_cooldown)
    /\ FetchFailed
    /\ UNCHANGED <<yf_active_subscriptions, yf_last_prices, yf_streaming_paused,
                   yf_ingest, yf_session>>

\* _fetch_latest_price raises: the except clause of the loop.
YfFetchRaises(failing) ==
    /\ UNCHANGED <<not_yf, yf_stopped, yf_renewed>>
    /\ yf_loop.pc = "request"
    /\ yf_loop.symbol \in failing
    /\ FetchFailed
    /\ UNCHANGED <<yf_active_subscriptions, yf_last_prices, yf_streaming_paused,
                   yf_in_cooldown, yf_ingest, yf_session>>

\* The consumer takes the yielded point and asks for the next: the generator
\* resumes after its yield and runs to the delay between symbols.
YfConsumerNext ==
    /\ UNCHANGED <<not_yf, yf_stopped, yf_renewed>>
    /\ yf_session = "open"
    /\ yf_loop.pc = "yield"
    /\ yf_loop' = [yf_loop EXCEPT !.pc = "sleep_symbol"]
    /\ UNCHANGED <<yf_active_subscriptions, yf_last_prices, yf_streaming_paused,
                   yf_consecutive_failures, yf_in_cooldown, yf_ingest, yf_session,
                   yf_streak>>

\* The delay between symbols ends: back to the inner for loop.
YfSymbolDelayDone ==
    /\ UNCHANGED <<not_yf, yf_stopped, yf_renewed>>
    /\ yf_loop.pc = "sleep_symbol"
    /\ yf_loop' = [yf_loop EXCEPT !.pc = "iter", !.interval = "-", !.point = <<>>]
    /\ UNCHANGED <<yf_active_subscriptions, yf_last_prices, yf_streaming_paused,
                   yf_consecutive_failures, yf_in_cooldown, yf_ingest, yf_session,
                   yf_streak>>

\* Time passes while the loop is suspended: the cooldown runs out.
YfCooldownExpires ==
    /\ UNCHANGED <<not_yf, yf_stopped, yf_renewed>>
    /\ YfSuspended
    /\ yf_in_cooldown
    /\ yf_in_cooldown' = FALSE
    /\ UNCHANGED <<yf_active_subscriptions, yf_last_prices, yf_streaming_paused,
                   yf_consecutive_failures, yf_loop, yf_ingest, yf_session, yf_streak>>

-----------------------------------------------------------------------------
(* Yahoo: _process_subscriptions and stream_realtime_data *)

\* A control loop whose RESUME also forgets the points emitted so far.
YfProcessSubscriptionsResumeForgets(msg) ==
    /\ UNCHANGED not_yf
    /\ yf_session = "open"
    /\ yf_ingest = "running"
    /\ YfSuspended
    /\ LET symbol == StrUpper(msg.symbol)
           reg == CASE msg.action = "SUBSCRIBE" ->
                         RegSubscribe(yf_active_subscriptions, symbol, msg.interval)
                    [] msg.action = "UNSUBSCRIBE" ->
                         RegUnsubscribe(yf_active_subscriptions, symbol, msg.interval)
                    [] OTHER -> yf_active_subscriptions
       IN /\ yf_active_subscriptions' = reg
          /\ yf_loop' = [yf_loop EXCEPT !.subscriptions = MarkDeleted(@, reg)]
          /\ yf_renewed' =
               CASE msg.action = "SUBSCRIBE" /\ YfKey(symbol, msg.interval) \in yf_stopped ->
                       yf_renewed \cup {YfKey(symbol, msg.interval)}
                 [] msg.action = "UNSUBSCRIBE" -> yf_renewed \ {YfKey(symbol, msg.interval)}
                 [] OTHER -> yf_renewed
          /\ yf_stopped' =
               CASE msg.action = "SUBSCRIBE" -> yf_stopped \ {YfKey(symbol, msg.interval)}
                 [] msg.action = "UNSUBSCRIBE"
                    /\ msg.interval \in RegIntervals(yf_active_subscriptions, symbol)
                    /\ YfKey(symbol, msg.interval) \in DOMAIN yf_last_prices ->
                       yf_stopped \cup {YfKey(symbol, msg.interval)}
                 [] OTHER -> yf_stopped
    /\ yf_streaming_paused' =
         CASE msg.action = "PAUSE" -> TRUE
           [] msg.action = "RESUME" -> FALSE
           [] OTHER -> yf_streaming_paused
    /\ yf_last_prices' = IF msg.action = "RESUME" THEN <<>> ELSE yf_last_prices
    /\ UNCHANGED <<yf_consecutive_failures, yf_in_cooldown,
                   yf_ingest, yf_session, yf_streak>>

\* One control message, handled while the polling loop is suspended.
YfProcessSubscriptions(msg) ==
    /\ UNCHANGED not_yf
    /\ yf_session = "open"
    /\ yf_ingest = "running"
    /\ YfSuspended
    /\ LET symbol == StrUpper(msg.symbol)
           reg == CASE msg.action = "SUBSCRIBE" ->
                         RegSubscribe(yf_active_subscriptions, symbol, msg.interval)
                    [] msg.action = "UNSUBSCRIBE" ->
                         RegUnsubscribe(yf_active_subscriptions, symbol, msg.interval)
                    [] OTHER -> yf_active_subscriptions
       IN /\ yf_active_subscriptions' = reg
          /\ yf_loop' = [yf_loop EXCEPT !.subscriptions = MarkDeleted(@, reg)]
          /\ yf_renewed' =
               CASE msg.action = "SUBSCRIBE" /\ YfKey(symbol, msg.interval) \in yf_stopped ->
                       yf_renewed \cup {YfKey(symbol, msg.interval)}
                 [] msg.action = "UNSUBSCRIBE" -> yf_renewed \ {YfKey(symbol, msg.interval)}
                 [] OTHER -> yf_renewed
          /\ yf_stopped' =
               CASE msg.action = "SUBSCRIBE" -> yf_stopped \ {YfKey(symbol, msg.interval)}
                 [] msg.action = "UNSUBSCRIBE"
                    /\ msg.interval \in RegIntervals(yf_active_subscriptions, symbol)
                    /\ YfKey(symbol, msg.interval) \in DOMAIN yf_last_prices ->
                       yf_stopped \cup {YfKey(symbol, msg.interval)}
                 [] OTHER -> yf_stopped
    /\ yf_streaming_paused' =
         CASE msg.action = "PAUSE" -> TRUE
           [] msg.action = "RESUME" -> FALSE
           [] OTHER -> yf_streaming_paused
    /\ UNCHANGED <<yf_last_prices, yf_consecutive_failures, yf_in_cooldown,
                   yf_ingest, yf_session, yf_streak>>

\* A consumer opens a stream: the control-ingest task is created and the
\* polling loop is run for the first time.
YfSessionOpen ==
    /\ UNCHANGED <<not_yf, yf_stopped, yf_renewed>>
    /\ provider = "yahoo-finance"
    /\ yf_session = "none"
    /\ yf_session' = "open"
    /\ yf_ingest' = "running"
    /\ yf_loop' = LoopAt("start")
    /\ UNCHANGED <<yf_active_subscriptions, yf_last_prices, yf_streaming_paused,
                   yf_consecutive_failures, yf_in_cooldown, yf_streak>>

\* The control input ends.
YfEndOfInput ==
    /\ UNCHANGED <<not_yf, yf_stopped, yf_renewed>>
    /\ yf_session = "open"
    /\ yf_ingest = "running"
    /\ YfSuspended
    /\ yf_ingest' = "done"
    /\ UNCHANGED <<yf_active_subscriptions, yf_last_prices, yf_streaming_paused,
                   yf_consecutive_failures, yf_in_cooldown, yf_loop, yf_session,
                   yf_streak>>

\* The consumer closes the stream while the loop is suspended: the generator is
\* closed (or its task cancelled) and the finally block cancels the ingest task.
YfSessionClose ==
    /\ UNCHANGED <<not_yf, yf_stopped, yf_renewed>>
    /\ yf_session = "open"
    /\ YfSuspended \/ yf_loop.pc = "crashed"
    /\ yf_session' = "closed"
    /\ yf_ingest' = "done"
    /\ yf_loop' = LoopAt(IF yf_loop.pc = "crashed" THEN "crashed" ELSE "closed")
    /\ UNCHANGED <<yf_active_subscriptions, yf_last_prices, yf_streaming_paused,
                   yf_consecutive_failures, yf_in_cooldown, yf_streak>>

YfMessages ==
    [action : Actions, symbol : {"AAA", "aaa"}, interval : YfIntervals]
    \cup [action : Actions, symbol : {"BBB"}, interval : {"1m"}]

YfInit ==
    /\ yf_active_subscriptions = <<>>
    /\ yf_last_prices = <<>>
    /\ yf_streaming_paused = FALSE
    /\ yf_consecutive_failures = [s \in YfSymbols \cup {YfNoSymbol} |-> 0]
    /\ yf_in_cooldown = FALSE
    /\ yf_loop = LoopAt("none")
    /\ yf_ingest = "none"
    /\ yf_session = "none"
    /\ yf_streak = [s \in YfSymbols \cup {YfNoSymbol} |-> 0]
    /\ yf_stopped = {}
    /\ yf_renewed = {}

\* The environment of a polling session is what its specification lets it be:
\* the control messages the client may send, the bars (quotes) and clock
\* readings (poll_times) the fetch adapter may answer with, and the symbols
\* (failing) a fetch may fail for.

\* Control ingest and the session's lifecycle.
YfControl(messages) ==
    \/ \E msg \in messages : YfProcessSubscriptions(msg)
    \/ YfSessionOpen
    \/ YfEndOfInput
    \/ YfSessionClose

\* The polling loop between fetches.
YfLoop ==
    \/ YfLoopTop
    \/ \E due \in BOOLEAN : YfIterate(due)
    \/ YfConsumerNext
    \/ YfSymbolDelayDone

\* Fetches that return data.
YfData(quotes, poll_times) ==
    \E q \in quotes, poll_time \in poll_times : YfResponseData(q, poll_time)

\* Fetches that fail without a throttling signal.
YfFail(failing) ==
    \/ YfResponseNone(failing)
    \/ YfFetchRaises(failing)

\* Throttled fetches and the cooldown they start.
YfThrottle ==
    \/ YfResponseThrottled
    \/ YfAcquired
    \/ YfCooldownExpires

-----------------------------------------------------------------------------
(* Yahoo: the rate limiter of YahooFinanceAPI, with time in whole seconds *)

MIN_REQUEST_INTERVAL == 5
MAX_REQUESTS_PER_MINUTE == 8
\* The length of the limiter's counting window, in seconds.
MinuteLength == 60

\* The ends of the ranges random.uniform draws from.
IntervalJitter == {1, 3}       \* random.uniform(1, 3)
MinuteJitter == {5, 15}        \* random.uniform(5, 15)
Cooldowns == {120, 180}        \* random.uniform(120, 180)

\* The tasks that share the YahooFinanceAPI object.
Callers == {"polling", "historical"}
\* The seconds that may pass before a call or a response.
Delays == {0, 1, 5, 20}
\* Calls and responses that come at once, or after an idle stretch.
IdleDelays == {0, 20}
\* Calls and responses that follow one another closely.
FastDelays == {1, 5}
\* Calls and responses one second apart.
CloseDelays == {1}

CallerIdle == [pc |-> "idle", current_time |-> 0, wake |-> 0]
CallerAsleep(pc, current_time, wake) ==
    [pc |-> pc, current_time |-> current_time, wake |-> wake]
Sleeping == {c \in Callers : rl_callers[c].pc \in
                {"sleep_cooldown", "sleep_minute", "sleep_interval"}}

\* wait_time of line 105
MinuteWait(current_time, minute_reset_time, jitter) ==
    MinuteLength - (current_time - minute_reset_time) + jitter

\* A wait of the random part only.
MinIntervalWaitJitterOnly(time_since_last, jitter) == jitter

\* wait_time of line 114
MinIntervalWait(time_since_last, jitter) ==
    MIN_REQUEST_INTERVAL - time_since_last + jitter

\* What an observer of one 60 s window sees of a release at time now: it opens
\* its window at a release of its choice, and counts the releases that fall in
\* the window. A limiter may also go unwatched.
Unwatched == [watching |-> FALSE, start |-> 0, count |-> 0]
WindowUnopened == [watching |-> TRUE, start |-> 0, count |-> 0]
Observe(window, now) ==
    IF ~window.watching THEN {window}
    ELSE IF window.count = 0
    THEN {window, [window EXCEPT !.start = now, !.count = 1]}
    ELSE IF now - window.start < MinuteLength
    THEN {[window EXCEPT !.count = @ + 1]}
    ELSE {window}

\* Lines 117-118: the request is released.
Release(c, now, count) ==
    /\ rl_request_count_minute' = count + 1
    /\ rl_last_request_time' = now
    /\ rl_callers' = [rl_callers EXCEPT ![c] = [CallerIdle EXCEPT !.pc = "request"]]
    /\ rl_window' \in Observe(rl_window, now)

\* Lines 111-118, entered with the local current_time and the counter as the
\* lines before left it.
EnsureMinInterval(c, now, current_time, count) ==
    IF current_time - rl_last_request_time < MIN_REQUEST_INTERVAL
    THEN /\ \E jitter \in IntervalJitter :
              rl_callers' = [rl_callers EXCEPT ![c] =
                  CallerAsleep("sleep_interval", current_time,
                               now + MinIntervalWait(current_time - rl_last_request_time,
                                                     jitter))]
         /\ rl_request_count_minute' = count
         /\ UNCHANGED <<rl_last_request_time, rl_window>>
    ELSE Release(c, now, count)

\* Lines 98-118, entered with the local current_time just read from the clock.
CheckMinute(c, current_time) ==
    LET reset == current_time - rl_minute_reset_time >= MinuteLength
        count == IF reset THEN 0 ELSE rl_request_count_minute
        minute_reset_time == IF reset THEN current_time ELSE rl_minute_reset_time
    IN IF count >= MAX_REQUESTS_PER_MINUTE
       THEN /\ \E jitter \in MinuteJitter :
                 rl_callers' = [rl_callers EXCEPT ![c] =
                     CallerAsleep("sleep_minute", current_time,
                                  current_time
                                     + MinuteWait(current_time, minute_reset_time, jitter))]
            /\ rl_request_count_minute' = count
            /\ rl_minute_reset_time' = minute_reset_time
            /\ UNCHANGED <<rl_last_request_time, rl_window>>
       ELSE /\ rl_minute_reset_time' = minute_reset_time
            /\ EnsureMinInterval(c, current_time, current_time, count)

\* No sleep of _wait_for_rate_limit ends before the time now, which is within
\* the time the limiter is followed for.
NoWakeBefore(now) ==
    /\ now <= StartTime + Horizon
    /\ \A c \in Sleeping : rl_callers[c].wake >= now

\* fetch_chart_data is called, d seconds after the event before:
\* _wait_for_rate_limit runs to its first await, or through to the release.
RlCall(c, d) ==
    /\ UNCHANGED not_rl
    /\ provider = "yahoo-finance"
    /\ rl_callers[c].pc = "idle"
    /\ NoWakeBefore(rl_now + d)
    /\ rl_now' = rl_now + d
    /\ UNCHANGED rl_rate_limit_until
    /\ IF rl_now + d < rl_rate_limit_until
       THEN /\ rl_callers' = [rl_callers EXCEPT ![c] =
                 CallerAsleep("sleep_cooldown", rl_now + d, rl_rate_limit_until)]
            /\ UNCHANGED <<rl_last_request_time, rl_request_count_minute,
                           rl_minute_reset_time, rl_window>>
       ELSE CheckMinute(c, rl_now + d)

\* The time of caller c's wake-up comes: its sleep ends and it runs on to its
\* next await, or to the release. Only the cooldown sleep is followed by a new
\* reading of the clock into current_time.
RlWake(c) ==
    /\ UNCHANGED not_rl
    /\ c \in Sleeping
    /\ NoWakeBefore(rl_callers[c].wake)
    /\ rl_now' = rl_callers[c].wake
    /\ UNCHANGED rl_rate_limit_until
    /\ CASE rl_callers[c].pc = "sleep_cooldown" -> CheckMinute(c, rl_callers[c].wake)
         [] rl_callers[c].pc = "sleep_minute" ->
               /\ rl_minute_reset_time' = rl_callers[c].wake
               /\ EnsureMinInterval(c, rl_callers[c].wake, rl_callers[c].current_time, 0)
         [] rl_callers[c].pc = "sleep_interval" ->
               /\ UNCHANGED rl_minute_reset_time
               /\ Release(c, rl_callers[c].wake, rl_request_count_minute)

\* The response arrives d seconds after the event before: a 429 starts a
\* cooldown (_handle_429), and fetch_chart_data returns.
RlResponse(c, d, throttled) ==
    /\ UNCHANGED not_rl
    /\ rl_callers[c].pc = "request"
    /\ NoWakeBefore(rl_now + d)
    /\ rl_now' = rl_now + d
    /\ rl_callers' = [rl_callers EXCEPT ![c] = CallerIdle]
    /\ IF throttled
       THEN \E cooldown \in Cooldowns : rl_rate_limit_until' = rl_now + d + cooldown
       ELSE UNCHANGED rl_rate_limit_until
    /\ UNCHANGED <<rl_last_request_time, rl_request_count_minute,
                   rl_minute_reset_time, rl_window>>

\* YahooFinanceAPI.__init__
RlInit(window) ==
    /\ rl_now = StartTime
    /\ rl_last_request_time = 0
    /\ rl_request_count_minute = 0
    /\ rl_minute_reset_time = StartTime
    /\ rl_rate_limit_until = 0
    /\ rl_callers = [c \in Callers |-> CallerIdle]
    /\ rl_window = window

\* The limiter used by the tasks in callers, with calls and responses after the
\* given delays; the adapter answers 429 where throttling allows it.
RlStep(callers, delays, throttling) ==
    \/ \E c \in callers, d \in delays : RlCall(c, d)
    \/ \E c \in callers : RlWake(c)
    \/ \E c \in callers, d \in delays, throttled \in throttling : RlResponse(c, d, throttled)

-----------------------------------------------------------------------------
(* get_historical_data: an async generator, suspended at an upstream request *)
(* ("fetch") or at its yield ("yield"). Timestamps are small integers, for   *)
(* the minimal provider in days. limit 0 stands for None (both are falsy).   *)

HistTimes == 0..MaxTimestamp
HistLimits == 0..MaxLimit

\* The lists of bars (their timestamps) the upstream may answer one request with.
HistPagesOfLen(n) == [1..n -> HistTimes]
HistPages == UNION {HistPagesOfLen(n) : n \in 0..MaxPageLen}

\* No generator has been created.
HistNone == [pc |-> "none", limit |-> 0, since_ms |-> 0, end_ms |-> 0,
             page |-> <<>>, point |-> 0, yielded |-> 0, emitted |-> 0,
             seen |-> {}, ascending |-> TRUE]
HistInit == hist = HistNone

\* The generator returns.
HistDone(h) == [h EXCEPT !.pc = "done", !.page = <<>>]

\* The generator yields the bar with timestamp ts (the histories: emitted
\* counts the yields, seen holds the timestamps yielded so far).
HistYield(h, ts, rest) ==
    [h EXCEPT !.pc = "yield", !.point = ts, !.page = rest, !.emitted = @ + 1,
              !.seen = @ \cup {ts}]

\* A limit test that lets one more point through.
LimitReachedLate(limit, n) == limit # 0 /\ n > limit

\* "if limit and yielded >= limit"
LimitReached(limit, n) == limit # 0 /\ n >= limit

\* The timestamps of a page strictly increase.
Ascending(ohlcv) ==
    \A i \in 1..Len(ohlcv) : \A j \in 1..Len(ohlcv) : i < j => ohlcv[i] < ohlcv[j]

\* A pagination whose cursor is set to the last bar of the page, not past it.
CcxtHistForSameCursor(h) ==
    IF h.page = <<>>
    THEN IF h.point >= h.end_ms
         THEN HistDone([h EXCEPT !.since_ms = h.point])
         ELSE [h EXCEPT !.since_ms = h.point, !.pc = "fetch"]
    ELSE IF Head(h.page) > h.end_ms
    THEN HistDone(h)
    ELSE HistYield(h, Head(h.page), Tail(h.page))

\* CcxtProvider.get_historical_data, the for loop over the rest of the page and
\* what follows it: a bar after end_ms ends the generator; after the last bar
\* the cursor moves past it and the next page is requested.
CcxtHistFor(h) ==
    IF h.page = <<>>
    THEN IF h.point + 1 >= h.end_ms
         THEN HistDone([h EXCEPT !.since_ms = h.point + 1])
         ELSE [h EXCEPT !.since_ms = h.point + 1, !.pc = "fetch"]
    ELSE IF Head(h.page) > h.end_ms
    THEN HistDone(h)
    ELSE HistYield(h, Head(h.page), Tail(h.page))

\* The call, up to the first fetch_ohlcv request.
CcxtHistCall(limit, start_ms, end_ms) ==
    /\ UNCHANGED not_hist
    /\ provider = "ccxt"
    /\ hist.pc = "none"
    /\ hist' = [HistNone EXCEPT !.pc = "fetch", !.limit = limit,
                                !.since_ms = start_ms, !.end_ms = end_ms]

\* fetch_ohlcv returns ohlcv: an empty page ends the generator (the history
\* ascending: every page of this call so far was strictly increasing).
CcxtHistPage(ohlcv) ==
    /\ UNCHANGED not_hist
    /\ provider = "ccxt"
    /\ hist.pc = "fetch"
    /\ hist.emitted < MaxYielded
    /\ hist' = IF ohlcv = <<>>
               THEN HistDone(hist)
               ELSE CcxtHistFor([hist EXCEPT !.page = ohlcv,
                                            !.point = ohlcv[Len(ohlcv)],
                                            !.ascending = @ /\ Ascending(ohlcv)])

\* The consumer asks for the next point: the code after the yield.
CcxtHistNext ==
    /\ UNCHANGED not_hist
    /\ provider = "ccxt"
    /\ hist.pc = "yield"
    /\ hist.emitted < MaxYielded
    /\ hist' = IF LimitReached(hist.limit, hist.yielded + 1)
               THEN HistDone([hist EXCEPT !.yielded = @ + 1])
               ELSE CcxtHistFor([hist EXCEPT
                                   !.yielded = @ + 1,
                                   !.point = IF hist.page = <<>> THEN hist.point
                                             ELSE hist.page[Len(hist.page)]])

\* YahooFinanceProvider.get_historical_data: the for loop over data_points.
YfHistFor(h) ==
    IF h.page = <<>> \/ LimitReached(h.limit, h.yielded)
    THEN HistDone(h)
    ELSE HistYield(h, Head(h.page), Tail(h.page))

YfHistCall(limit) ==
    /\ UNCHANGED not_hist
    /\ provider = "yahoo-finance"
    /\ hist.pc = "none"
    /\ hist' = [HistNone EXCEPT !.pc = "fetch", !.limit = limit]

\* fetch_chart_data returns data_points (None or an empty list: <<>>).
YfHistData(data_points) ==
    /\ UNCHANGED not_hist
    /\ provider = "yahoo-finance"
    /\ hist.pc = "fetch"
    /\ hist' = YfHistFor([hist EXCEPT !.page = data_points])

YfHistNext ==
    /\ UNCHANGED not_hist
    /\ provider = "yahoo-finance"
    /\ hist.pc = "yield"
    /\ hist' = YfHistFor([hist EXCEPT !.yielded = @ + 1])

\* MinimalProvider.get_historical_data: one synthetic bar a day from start_time
\* to end_time (since_ms holds "current", yielded holds "count").
MinimalHistWhile(h) ==
    IF h.since_ms > h.end_ms \/ LimitReached(h.limit, h.yielded)
    THEN HistDone(h)
    ELSE HistYield(h, h.since_ms, <<>>)

MinimalHistCall(limit, start_time, end_time) ==
    /\ UNCHANGED not_hist
    /\ provider = "minimal"
    /\ hist.pc = "none"
    /\ hist' = MinimalHistWhile([HistNone EXCEPT !.limit = limit,
                                                !.since_ms = start_time,
                                                !.end_ms = end_time])

MinimalHistNext ==
    /\ UNCHANGED not_hist
    /\ provider = "minimal"
    /\ hist.pc = "yield"
    /\ hist' = MinimalHistWhile([hist EXCEPT !.since_ms = @ + 1, !.yielded = @ + 1])

\* The generator is finished and collected; another request may follow.
HistRelease ==
    /\ UNCHANGED not_hist
    /\ hist.pc = "done"
    /\ hist' = HistNone

-----------------------------------------------------------------------------
(* _polling_loop with its clock: the generator is suspended at a sleep, at   *)
(* the fetch or at its yield, and time passes while it is suspended. Whether *)
(* the session is paused, in cooldown or without subscriptions, which keys   *)
(* are subscribed and whether the breaker passes over a symbol are inputs    *)
(* here; they are followed in the yf_ variables.                             *)

\* poll_delays of lines 421-430
poll_delays ==
    ("1m" :> 180) @@ ("2m" :> 240) @@ ("5m" :> 360) @@ ("15m" :> 900)
    @@ ("30m" :> 1800) @@ ("60m" :> 3600) @@ ("1h" :> 3600) @@ ("1d" :> 7200)

\* poll_delays.get(interval, 600)
PollDelay(interval) ==
    IF interval \in DOMAIN poll_delays THEN poll_delays[interval] ELSE 600

\* The (symbol, interval) pairs the client of a session subscribes to, for the
\* sessions followed; "3m" is not in the table.
CadenceClients == {{<<"AAA", "1m">>, <<"BBB", "1m">>}, {<<"AAA", "3m">>}}
CadenceKeys == UNION CadenceClients
\* The time the loop of a session with these keys is followed to.
CadenceEnd(keys) ==
    LET longest == CHOOSE d \in {PollDelay(k[2]) : k \in keys} :
                       \A k \in keys : PollDelay(k[2]) <= d
    IN StartTime + longest + CadenceSlack

\* What a fetch may come to.
FetchOutcomes == {"changed", "unchanged", "none", "raised"}
\* The seconds a fetch, or the consumer of a yielded point, may take.
FetchTimes == {0, 20}
ConsumerTimes == {0, 20}
\* asyncio.sleep(10) of lines 436 and 450, and min(wait_time + 5, 60) of
\* line 443 at its longest.
TopSleeps == {10, 60}
\* asyncio.sleep(10) of line 490, on time or late.
CycleSleeps == {10, 180}
\* random.uniform(5, 10) of line 488
SymbolSleeps == {5, 10}

\* No generator has been created. last_poll_times holds 0 for a key it does
\* not have (last_poll_times.get(key, 0)); attempted and prev are history: when
\* the fetch of a key was last started, and when the fetch of c.key before that.
CadenceNone ==
    [pc |-> "none", keys |-> {}, now |-> StartTime, current_time |-> 0, todo |-> {},
     key |-> <<>>, last_poll_times |-> [k \in CadenceKeys |-> 0],
     attempted |-> [k \in CadenceKeys |-> 0], prev |-> 0]
CadenceInit == cadence = CadenceNone

\* Line 459
CadenceDue(c, k) == c.current_time - c.last_poll_times[k] >= PollDelay(k[2])

\* Lines 453-490 with the keys of c.todo still to visit: the loops pass over
\* keys that are not due and keys of a tripped symbol, and come to the fetch
\* of a due key (line 469) or, past the last key, to the sleep of line 490.
CadenceFor(c) ==
    UNION {{[c EXCEPT !.pc = "fetch", !.key = k, !.todo = rest,
                      !.prev = c.attempted[k], !.attempted[k] = c.now] :
               rest \in SUBSET (c.todo \ {k})} :
             k \in {due \in c.todo : CadenceDue(c, due)}}
    \cup {[c EXCEPT !.pc = "sleep_cycle", !.todo = {}]}

\* Lines 434-490 from the top of the while loop: the sleeps of a paused,
\* cooling or unsubscribed session, or a cycle over a snapshot.
CadenceWhile(c) ==
    {[c EXCEPT !.pc = "sleep_top"]}
    \cup UNION {CadenceFor([c EXCEPT !.current_time = c.now, !.todo = subscriptions]) :
                   subscriptions \in SUBSET c.keys \ {{}}}

\* stream_realtime_data starts to iterate _polling_loop.
CadencePoll ==
    /\ UNCHANGED not_cadence
    /\ provider = "yahoo-finance"
    /\ cadence.pc = "none"
    /\ \E keys \in CadenceClients :
          cadence' \in CadenceWhile([cadence EXCEPT !.pc = "top", !.keys = keys])

\* A sleep of lines 436, 443 or 450 ends after d seconds.
CadenceTopSleepDone(d) ==
    /\ UNCHANGED not_cadence
    /\ cadence.pc = "sleep_top"
    /\ cadence.now + d <= CadenceEnd(cadence.keys)
    /\ cadence' \in CadenceWhile([cadence EXCEPT !.now = @ + d])

\* Lines 480 and 485: the time of the attempt is recorded.
CadenceRecorded(c) ==
    [c EXCEPT !.pc = "sleep_symbol", !.last_poll_times[c.key] = c.now]

\* A loop that records no time for a fetch that raised.
CadenceFetchDoneRaiseUnrecorded(d, outcome) ==
    /\ UNCHANGED not_cadence
    /\ cadence.pc = "fetch"
    /\ cadence.now + d <= CadenceEnd(cadence.keys)
    /\ cadence' = IF outcome = "changed"
                  THEN [cadence EXCEPT !.pc = "yield", !.now = @ + d]
                  ELSE IF outcome = "raised"
                  THEN [cadence EXCEPT !.pc = "sleep_symbol", !.now = @ + d]
                  ELSE [cadence EXCEPT !.pc = "sleep_symbol", !.now = @ + d,
                                       !.last_poll_times[cadence.key] = cadence.now + d]

\* _fetch_latest_price returns or raises after d seconds (lines 469-485).
CadenceFetchDone(d, outcome) ==
    /\ UNCHANGED not_cadence
    /\ cadence.pc = "fetch"
    /\ cadence.now + d <= CadenceEnd(cadence.keys)
    /\ cadence' = IF outcome = "changed"
                  THEN [cadence EXCEPT !.pc = "yield", !.now = @ + d]
                  ELSE CadenceRecorded([cadence EXCEPT !.now = @ + d])

\* The consumer asks for the next point d seconds after the yield of line 476.
CadenceYieldResumed(d) ==
    /\ UNCHANGED not_cadence
    /\ cadence.pc = "yield"
    /\ cadence.now + d <= CadenceEnd(cadence.keys)
    /\ cadence' = CadenceRecorded([cadence EXCEPT !.now = @ + d])

\* The sleep of line 488 ends after d seconds.
CadenceSymbolSleepDone(d) ==
    /\ UNCHANGED not_cadence
    /\ cadence.pc = "sleep_symbol"
    /\ cadence.now + d <= CadenceEnd(cadence.keys)
    /\ cadence' \in CadenceFor([cadence EXCEPT !.now = @ + d])

\* The sleep of line 490 ends after d seconds.
CadenceCycleSleepDone(d) ==
    /\ UNCHANGED not_cadence
    /\ cadence.pc = "sleep_cycle"
    /\ cadence.now + d <= CadenceEnd(cadence.keys)
    /\ cadence' \in CadenceWhile([cadence EXCEPT !.now = @ + d])

-----------------------------------------------------------------------------
(* _stream_symbol, watchTicker branch: the tick built from a ticker. A field *)
(* the exchange did not send is None; the code substitutes defaults with     *)
(* Python's "or", which takes 0 for missing as well.                         *)

None == -1
\* a or b
Or(a, b) == IF a = None \/ a = 0 THEN b ELSE a

TickerValues == {None} \cup (0..MaxPrice)
\* The tickers an exchange may send: the fields it sends are non-negative and
\* consistent with one another (low <= open <= high, low <= last <= high).
Tickers ==
    {t \in [open : TickerValues, high : TickerValues, low : TickerValues,
            last : TickerValues, baseVolume : TickerValues] :
        /\ (t.low # None /\ t.high # None) => t.low <= t.high
        /\ \A p \in {t.open, t.last} :
              p # None => /\ t.low # None => t.low <= p
                          /\ t.high # None => p <= t.high}

\* Lines 254-260: the fields of the message.
TickFromTicker(ticker) ==
    LET open_price == Or(Or(ticker.open, ticker.last), 0)
    IN [open |-> open_price,
        high |-> Or(ticker.high, open_price),
        low |-> Or(ticker.low, open_price),
        close |-> Or(ticker.last, open_price),
        volume |-> Or(ticker.baseVolume, 0)]

\* No ticker has been received.
TickNone == [pc |-> "none", ticker |-> <<>>, message |-> <<>>]
TickInit == tick = TickNone

\* watch_ticker returns a ticker and the worker builds its message from it.
WatchTickerReturns(ticker) ==
    /\ UNCHANGED not_tick
    /\ provider = "ccxt"
    /\ ccxt_has = "watchTicker"
    /\ tick' = [pc |-> "built", ticker |-> ticker, message |-> TickFromTicker(ticker)]

-----------------------------------------------------------------------------
(* Two calls of stream_realtime_data running at once on one CcxtProvider:    *)
(* each has its own consumer loop and control-ingest task, and both use the  *)
(* attributes of the object. Each client subscribes to a symbol of its own.  *)

Streams == {"A", "B"}
\* The subscription key a stream's client uses.
KeyOf(s) == IF s = "A" THEN "BINANCE:X|1m" ELSE "BINANCE:Y|1m"

\* Nothing is open. stream_queue names the stream whose asyncio.Queue the
\* attribute _stream_queue refers to; queue is the content of each stream's
\* Queue object; received is history: the keys whose points each consumer
\* has been handed.
SharedNone ==
    [session |-> [s \in Streams |-> "none"],
     stream_queue |-> "none",
     queue |-> [s \in Streams |-> <<>>],
     active_subscriptions |-> {},
     stream_tasks |-> {},
     streaming_paused |-> FALSE,
     received |-> [s \in Streams |-> {}]]
SharedInit == shared = SharedNone

\* Lines 139-140: the stream's queue replaces the one the object held.
SharedOpen(s) ==
    /\ UNCHANGED not_shared
    /\ provider = "ccxt"
    /\ shared.session[s] = "none"
    /\ shared' = [shared EXCEPT !.session[s] = "open", !.stream_queue = s]

\* The stream's control-ingest task handles one message of its client, for
\* the client's key (the exchange is loaded and lists the market).
SharedControl(s, action) ==
    /\ UNCHANGED not_shared
    /\ shared.session[s] = "open"
    /\ shared' =
         CASE action = "SUBSCRIBE" ->
                 [shared EXCEPT !.active_subscriptions = @ \cup {KeyOf(s)},
                                !.stream_tasks = @ \cup {KeyOf(s)}]
           [] action = "UNSUBSCRIBE" ->
                 [shared EXCEPT !.active_subscriptions = @ \ {KeyOf(s)},
                                !.stream_tasks = @ \ {KeyOf(s)}]
           [] action = "PAUSE" -> [shared EXCEPT !.streaming_paused = TRUE]
           [] action = "RESUME" -> [shared EXCEPT !.streaming_paused = FALSE]

\* The worker of key k is not held back: lines 242-246.
SharedProducing(k) == k \in shared.stream_tasks /\ ~shared.streaming_paused

\* The worker of key k publishes a point: put_nowait on self._stream_queue,
\* the queue the attribute refers to now (line 285).
SharedPublish(k) ==
    /\ UNCHANGED not_shared
    /\ SharedProducing(k)
    /\ shared.stream_queue # "none"
    /\ Len(shared.queue[shared.stream_queue]) < MaxQueue
    /\ shared' = [shared EXCEPT !.queue[shared.stream_queue] = Append(@, k)]

\* The consumer loop of stream s reads: self._stream_queue.get() (line 145)
\* takes from the queue the attribute refers to now, and the point is yielded
\* to the stream's client.
SharedConsumerGet(s) ==
    /\ UNCHANGED not_shared
    /\ shared.session[s] = "open"
    /\ shared.stream_queue # "none"
    /\ shared.queue[shared.stream_queue] # <<>>
    /\ shared' = [shared EXCEPT
                    !.queue[shared.stream_queue] = Tail(@),
                    !.received[s] = @ \cup {Head(shared.queue[shared.stream_queue])}]

\* The client of stream s closes it: the finally block cancels every task of
\* _stream_tasks (lines 158-160).
SharedClose(s) ==
    /\ UNCHANGED not_shared
    /\ shared.session[s] = "open"
    /\ shared' = [shared EXCEPT !.session[s] = "closed", !.stream_tasks = {}]

-----------------------------------------------------------------------------
(* Specifications *)

CcxtInit(has) ==
    /\ ccxt_active_subscriptions = {}
    /\ ccxt_stream_tasks = <<>>
    /\ ccxt_stream_queue = <<>>
    /\ ccxt_streaming_paused = FALSE
    /\ ccxt_exchanges = {}
    /\ ccxt_has \in has
    /\ ccxt_workers = [w \in WorkerIds |-> NoWorker]
    /\ ccxt_ingest = IngestEnded("none")
    /\ ccxt_session = "none"

\* Control ingest and the session's lifecycle.
CcxtControl(messages) ==
    \/ \E msg \in messages : CcxtProcessSubscriptions(msg)
    \/ \E ok \in BOOLEAN : CcxtLoadMarkets(ok)
    \/ CcxtEndOfInput
    \/ CcxtSessionOpen
    \/ CcxtSessionClose

\* The stream tasks between upstream results.
CcxtTasks ==
    \/ \E w \in WorkerIds : WorkerStart(w)
    \/ \E w \in WorkerIds : WorkerWake(w)
    \/ \E w \in WorkerIds : WorkerCancelled(w)

\* The upstream feed of an exchange with a watch call, and the consumer.
CcxtFeed ==
    \/ \E w \in WorkerIds : WorkerPublish(w)
    \/ \E w \in WorkerIds : WorkerError(w)
    \/ CcxtConsumerGet
    \/ CcxtConsumerTimeout

CcxtStep(messages) ==
    \/ CcxtControl(messages)
    \/ CcxtTasks
    \/ CcxtFeed

\* The state after the process has constructed its provider. A CCXT exchange
\* offers one of the three kinds of feed.
InitCcxt ==
    /\ provider = "ccxt"
    /\ CcxtInit({"watchOHLCV", "watchTicker", "none"})
    /\ YfInit
    /\ RlInit(Unwatched)
    /\ HistInit
    /\ CadenceInit
    /\ TickInit
    /\ SharedInit

InitYahoo ==
    /\ provider = "yahoo-finance"
    /\ CcxtInit({"none"})
    /\ YfInit
    /\ RlInit(Unwatched)
    /\ HistInit
    /\ CadenceInit
    /\ TickInit
    /\ SharedInit

Init == InitCcxt \/ InitYahoo

\* The push session.
CcxtNext == CcxtStep(CcxtMessages)
SpecCcxt == InitCcxt /\ [][CcxtNext]_vars

\* The same under the scheduling of the event loop: a task that is ready to
\* run (created, its sleep over, or its cancellation requested) is run.
TasksScheduled ==
    \A w \in WorkerIds : /\ WF_vars(WorkerStart(w))
                         /\ WF_vars(WorkerWake(w))
                         /\ WF_vars(WorkerCancelled(w))
SpecCcxtFair == InitCcxt /\ [][CcxtNext]_vars /\ TasksScheduled

\* The same for a client that uses one spelling of its symbol.
CcxtMessagesOneSpelling == {m \in CcxtMessages : m.symbol = SymBinanceX}
OneSpellingNext == CcxtStep(CcxtMessagesOneSpelling)
SpecOneSpellingFair == InitCcxt /\ [][OneSpellingNext]_vars /\ TasksScheduled

\* The polling session: subscriptions come and go, every fetch gives the same bar.
YahooNext ==
    \/ YfControl(YfMessages)
    \/ YfLoop
    \/ YfData({QuoteBase}, {1})
SpecYahoo == InitYahoo /\ [][YahooNext]_vars

\* A process of either provider.
Next == CcxtNext \/ YahooNext
Spec == Init /\ [][Next]_vars

\* A process of either provider, as far as its subscriptions go: the CCXT
\* exchange has no watch call, so that its stream tasks poll and publish nothing.
InitControl ==
    \/ /\ provider = "ccxt"
       /\ CcxtInit({"none"})
       /\ YfInit
       /\ RlInit(Unwatched)
       /\ HistInit
       /\ CadenceInit
       /\ TickInit
       /\ SharedInit
    \/ InitYahoo
ControlNext ==
    \/ CcxtControl(CcxtMessages)
    \/ CcxtTasks
    \/ YahooNext
SpecControl == InitControl /\ [][ControlNext]_vars

\* The polling session with fetches that may fail for AAA.
YfMessagesOneInterval == {m \in YfMessages : m.interval = "1m" /\ m.symbol \in YfSymbols}
BreakerNext ==
    \/ YfControl(YfMessagesOneInterval)
    \/ YfLoop
    \/ YfData({QuoteBase}, {1})
    \/ YfFail({"AAA"})
SpecBreaker == InitYahoo /\ [][BreakerNext]_vars

\* The polling session with bars that differ from poll to poll.
FilterNext ==
    \/ YfControl(YfMessagesOneInterval)
    \/ YfLoop
    \/ YfData({QuoteBase, QuoteVolume, QuoteLater}, PollTimes)
SpecFilter == InitYahoo /\ [][FilterNext]_vars

\* The rate limiter with one caller, each call made after the one before returned.
SequentialNext == RlStep({"polling"}, Delays, {FALSE, TRUE})
SpecSequential == InitYahoo /\ [][SequentialNext]_vars

\* The same, with an observer counting the releases in a 60 s window.
InitWatched ==
    /\ provider = "yahoo-finance"
    /\ CcxtInit({"none"})
    /\ YfInit
    /\ RlInit(WindowUnopened)
    /\ HistInit
    /\ CadenceInit
    /\ TickInit
    /\ SharedInit
BudgetNext == RlStep({"polling"}, IdleDelays, {FALSE})
SpecBudget == InitWatched /\ [][BudgetNext]_vars

\* The rate limiter shared by two tasks.
ConcurrentNext == RlStep(Callers, FastDelays, {FALSE})
SpecConcurrent == InitYahoo /\ [][ConcurrentNext]_vars

\* The rate limiter shared by two tasks, with an adapter that may answer 429.
ConcurrentThrottledNext == RlStep(Callers, CloseDelays, {FALSE, TRUE})
SpecConcurrentThrottled == InitYahoo /\ [][ConcurrentThrottledNext]_vars

\* The polling session of a client that subscribes, pauses and resumes, with a
\* fetch adapter that answers every request with 429.
YfMessagesNoUnsubscribe == {m \in YfMessagesOneInterval : m.action # "UNSUBSCRIBE"}
ThrottledNext ==
    \/ YfControl(YfMessagesNoUnsubscribe)
    \/ YfLoopTop
    \/ \E due \in BOOLEAN : YfIterate(due)
    \/ YfSymbolDelayDone
    \/ YfThrottle
SpecThrottled == InitYahoo /\ [][ThrottledNext]_vars

\* The polling loop of one session, with its clock.
CadenceNext ==
    \/ CadencePoll
    \/ \E d \in TopSleeps : CadenceTopSleepDone(d)
    \/ \E d \in FetchTimes, outcome \in FetchOutcomes : CadenceFetchDone(d, outcome)
    \/ \E d \in ConsumerTimes : CadenceYieldResumed(d)
    \/ \E d \in SymbolSleeps : CadenceSymbolSleepDone(d)
    \/ \E d \in CycleSleeps : CadenceCycleSleepDone(d)
SpecCadence == InitYahoo /\ [][CadenceNext]_vars

\* A CCXT worker on an exchange with tickers only, one ticker after another.
TickerNext == \E ticker \in Tickers : WatchTickerReturns(ticker)
SpecTicker == InitCcxt /\ [][TickerNext]_vars

\* A CCXT provider that serves one stream after another, for clients that use
\* one spelling of their symbol.
ReopenNext == CcxtStep(CcxtMessagesOneSpelling) \/ CcxtSessionReopen
SpecReopen == InitCcxt /\ [][ReopenNext]_vars

\* One CCXT provider with two streams.
TwoStreamsNext ==
    \/ \E s \in Streams : SharedOpen(s)
    \/ \E s \in Streams, action \in Actions : SharedControl(s, action)
    \/ \E s \in Streams : SharedPublish(KeyOf(s))
    \/ \E s \in Streams : SharedConsumerGet(s)
    \/ \E s \in Streams : SharedClose(s)
SpecTwoStreams == InitCcxt /\ [][TwoStreamsNext]_vars

\* A process of either provider whose client also sends malformed messages:
\* symbols that are missing, not in EXCHANGE:SYMBOL form, of an unknown
\* exchange, or of a market the exchange does not list.
CcxtMessagesAny == [action : Actions, symbol : CcxtSymbols, interval : {"1m"}]
YfMessagesAny == [action : Actions, symbol : {"AAA", "aaa", YfNoSymbol}, interval : {"1m"}]
AnyMessageNext ==
    \/ CcxtStep(CcxtMessagesAny)
    \/ YfControl(YfMessagesAny)
    \/ YfLoop
    \/ YfData({QuoteBase}, {1})
SpecAnyMessage == Init /\ [][AnyMessageNext]_vars

\* A process of either provider whose upstream calls may fail: watch calls that
\* raise, fetches that return nothing, raise or are throttled.
YfMessagesOneSymbol == {m \in YfMessages : m.symbol = "AAA"}
FailuresNext ==
    \/ CcxtStep(CcxtMessagesOneInterval)
    \/ YfControl(YfMessagesOneSymbol)
    \/ YfLoop
    \/ YfData({QuoteBase}, {1})
    \/ YfFail({"AAA"})
    \/ YfThrottle
SpecFailures == Init /\ [][FailuresNext]_vars

\* Historical requests to a process of one of the three providers.
InitHistorical ==
    /\ provider \in {"ccxt", "yahoo-finance", "minimal"}
    /\ CcxtInit({"none"})
    /\ YfInit
    /\ RlInit(Unwatched)
    /\ HistInit
    /\ CadenceInit
    /\ TickInit
    /\ SharedInit
HistoricalNext ==
    \/ \E limit \in HistLimits, start_ms \in HistTimes, end_ms \in HistTimes :
          CcxtHistCall(limit, start_ms, end_ms)
    \/ \E ohlcv \in HistPages : CcxtHistPage(ohlcv)
    \/ CcxtHistNext
    \/ \E limit \in HistLimits : YfHistCall(limit)
    \/ \E data_points \in HistPages : YfHistData(data_points)
    \/ YfHistNext
    \/ \E limit \in HistLimits, start_time \in HistTimes, end_time \in HistTimes :
          MinimalHistCall(limit, start_time, end_time)
    \/ MinimalHistNext
    \/ HistRelease
SpecHistorical == InitHistorical /\ [][HistoricalNext]_vars

\* CCXT pagination against an exchange that answers each request with bars at
\* or after the requested since only.
AtOrAfter(ohlcv, since_ms) == \A i \in 1..Len(ohlcv) : ohlcv[i] >= since_ms
PaginationNext ==
    \/ \E limit \in HistLimits, start_ms \in HistTimes, end_ms \in HistTimes :
          CcxtHistCall(limit, start_ms, end_ms)
    \/ \E ohlcv \in HistPages : AtOrAfter(ohlcv, hist.since_ms) /\ CcxtHistPage(ohlcv)
    \/ CcxtHistNext
    \/ HistRelease
SpecPagination == InitCcxt /\ [][PaginationNext]_vars

-----------------------------------------------------------------------------
(* The claims *)

\* C1: the subscription registry holds a key at most once and at most one
\* stream worker exists for a key; a SUBSCRIBE for a key that is already active
\* changes neither the registry nor the workers (CCXT and Yahoo).
C1_NoDuplicateSubscription ==
    [][/\ provider = "ccxt" =>
            /\ \A v, w \in RunnableIds' : WorkerKey(v)' = WorkerKey(w)' => v = w
            /\ \A msg \in CcxtMessages :
                 (/\ msg.action = "SUBSCRIBE"
                  /\ SubscriptionKey(msg.symbol, msg.interval) \in ccxt_active_subscriptions
                  /\ CcxtProcessSubscriptions(msg))
                    => UNCHANGED <<ccxt_active_subscriptions, ccxt_stream_tasks,
                                   ccxt_workers>>
       /\ provider = "yahoo-finance" =>
            /\ \A m, n \in 1..Len(yf_active_subscriptions') :
                  yf_active_subscriptions'[m].symbol = yf_active_subscriptions'[n].symbol
                     => m = n
            /\ \A msg \in YfMessages :
                 (/\ msg.action = "SUBSCRIBE"
                  /\ msg.interval
                        \in RegIntervals(yf_active_subscriptions, StrUpper(msg.symbol))
                  /\ YfProcessSubscriptions(msg))
                    => UNCHANGED yf_active_subscriptions]_vars

\* Two keys are active, each served by its own running worker, and the control
\* ingest is ready for the next message.
C1_Witness ==
    /\ ccxt_session = "open"
    /\ ccxt_ingest.pc = "idle"
    /\ Cardinality(ccxt_active_subscriptions) = 2
    /\ Cardinality(RunnableIds) = 2
    /\ \A w \in RunnableIds : WorkerKey(w) \in ccxt_active_subscriptions

\* C2: with AAA 1m and BBB 1m subscribed, once the first AAA point has been
\* emitted and AAA 1m has been unsubscribed while the loop was suspended, no
\* further AAA 1m point is emitted and the stream does not fail.
C2_UnsubscribeStopsOnlyThatKey ==
    [][(/\ yf_session = "open"
        /\ YfKey("AAA", "1m") \in yf_stopped
        /\ "1m" \in RegIntervals(yf_active_subscriptions, "BBB"))
          => /\ yf_loop'.pc # "crashed"
             /\ ~(/\ yf_loop.pc = "request"
                  /\ yf_loop'.pc = "yield"
                  /\ yf_loop.symbol = "AAA"
                  /\ yf_loop.interval = "1m")]_vars

\* C3: an UNSUBSCRIBE of an active key removes the key and its stream task and
\* cancels that task; the workers and stream tasks of every other key are as
\* they were.
C3_UnsubscribeCancelsOnlyThatWorker ==
    [][\A msg \in CcxtMessages :
         (/\ msg.action = "UNSUBSCRIBE"
          /\ SubscriptionKey(msg.symbol, msg.interval) \in ccxt_active_subscriptions
          /\ CcxtProcessSubscriptions(msg))
            => /\ ccxt_active_subscriptions' =
                    ccxt_active_subscriptions \ {SubscriptionKey(msg.symbol, msg.interval)}
               /\ StreamKey(msg.symbol, msg.interval) \notin DOMAIN ccxt_stream_tasks'
               /\ \A w \in RunnableIds :
                     WorkerKey(w) # SubscriptionKey(msg.symbol, msg.interval)
                        => ccxt_workers'[w] = ccxt_workers[w]
               /\ \A w \in RunnableIds :
                     WorkerKey(w) = SubscriptionKey(msg.symbol, msg.interval)
                        => ccxt_workers'[w].cancel]_vars

\* C4: a fetched point that equals the last emitted point of its key in open,
\* high, low, close, volume and timestamp is not emitted, whatever its poll
\* time; a point that differs in one of the six, or the first of its key, is
\* emitted and becomes the last emitted point.
C4_ChangeFilter ==
    [][\A q \in {QuoteBase, QuoteVolume, QuoteLater}, poll_time \in PollTimes :
         YfResponseData(q, poll_time) =>
            LET key == YfKey(yf_loop.symbol, yf_loop.interval)
                new == DataPoint(yf_loop.symbol, yf_loop.interval, q, poll_time)
            IN IF /\ key \in DOMAIN yf_last_prices
                  /\ yf_last_prices[key].open = q.open
                  /\ yf_last_prices[key].high = q.high
                  /\ yf_last_prices[key].low = q.low
                  /\ yf_last_prices[key].close = q.close
                  /\ yf_last_prices[key].volume = q.volume
                  /\ yf_last_prices[key].timestamp = q.timestamp
               THEN /\ yf_loop'.pc # "yield"
                    /\ yf_last_prices' = yf_last_prices
               ELSE /\ yf_loop'.pc = "yield"
                    /\ yf_loop'.point = new
                    /\ yf_last_prices'[key] = new]_vars

\* A fetched point with another poll time than the last emitted point of its
\* key, and the same six fields, has been held back.
C4_Witness ==
    /\ yf_loop.pc = "sleep_symbol"
    /\ yf_loop.point # <<>>
    /\ YfKey(yf_loop.symbol, yf_loop.interval) \in DOMAIN yf_last_prices
    /\ yf_last_prices[YfKey(yf_loop.symbol, yf_loop.interval)] # yf_loop.point
    /\ yf_last_prices[YfKey(yf_loop.symbol, yf_loop.interval)].poll_time
          # yf_loop.point.poll_time
    /\ ~HasPriceChanged(yf_last_prices[YfKey(yf_loop.symbol, yf_loop.interval)],
                        yf_loop.point)

\* C5: the scheduling check of a symbol that follows its fifth failed fetch in
\* a row passes the symbol over and sets its counter to 0; the check after that
\* one starts a fetch.
C5_SkipOnceAfterThreshold ==
    [][(/\ YfIterate(TRUE)
        /\ yf_loop'.symbol = yf_loop.symbol
        /\ yf_loop'.seen # yf_loop.seen)
          => /\ yf_streak[yf_loop.symbol] = MaxConsecutiveFailures
                  => /\ yf_loop'.pc = "iter"
                     /\ yf_consecutive_failures'[yf_loop.symbol] = 0
             /\ yf_streak[yf_loop.symbol] = StreakSkipped
                  => yf_loop'.pc \in {"acquire", "request"}]_vars

\* C6: with one caller whose calls follow one another, a request is released
\* no sooner than MIN_REQUEST_INTERVAL after the release before it.
C6_SequentialSpacing ==
    [][(/\ rl_callers["polling"].pc # "request"
        /\ rl_callers'["polling"].pc = "request")
          => rl_now' - rl_last_request_time >= MIN_REQUEST_INTERVAL]_vars

\* The second request of a caller that called again at once has been released,
\* after the wait for the minimum interval.
C6_Witness ==
    /\ rl_callers["polling"].pc = "request"
    /\ rl_request_count_minute = 2
    /\ rl_now = StartTime + MIN_REQUEST_INTERVAL + 1

\* C7: with one caller, no 60 s window that opens at a release holds more
\* than MAX_REQUESTS_PER_MINUTE releases.
C7_RollingBudget == rl_window.count <= MAX_REQUESTS_PER_MINUTE

\* C8: with two tasks in _wait_for_rate_limit, a request is released no sooner
\* than MIN_REQUEST_INTERVAL after the release before it, and the count of the
\* minute does not pass MAX_REQUESTS_PER_MINUTE.
C8_ConcurrentCallersSerialized ==
    [][\A c \in Callers :
         (/\ rl_callers[c].pc # "request"
          /\ rl_callers'[c].pc = "request")
            => /\ rl_now' - rl_last_request_time >= MIN_REQUEST_INTERVAL
               /\ rl_request_count_minute' <= MAX_REQUESTS_PER_MINUTE]_vars

C10_QueueBounded ==
    /\ QueueMaxsize > 0
    /\ Len(ccxt_stream_queue) <= QueueMaxsize

\* Every publish so far was accepted: the queue holds as many messages as the
\* model lets the workers publish.
C10_QueueGrows == Len(ccxt_stream_queue) = MaxQueue

\* C11: while the pause flag is set the polling loop starts no fetch, also for
\* the subscriptions a running cycle has not visited yet.
C11_NoFetchWhilePaused ==
    [][(/\ yf_loop.pc \notin {"acquire", "request"}
        /\ yf_loop'.pc \in {"acquire", "request"})
       => ~yf_streaming_paused]_vars

\* PAUSE arrived inside a cycle and the cycle went on to the next symbol's fetch.
C11_FetchWhilePaused ==
    /\ yf_streaming_paused
    /\ yf_loop.pc = "request"
    /\ yf_loop.i = 2

\* C12: a stream task starts a watch call only while the pause flag is clear;
\* with the flag set it goes to its pause sleep.
C12_NoWatchWhilePaused ==
    [][\A w \in WorkerIds :
         (WorkerStart(w) \/ WorkerWake(w) \/ WorkerPublish(w)) =>
            /\ ccxt_workers'[w].pc \in {"watch_ohlcv", "watch_ticker"}
                  => ~ccxt_streaming_paused
            /\ (ccxt_streaming_paused /\ ccxt_workers'[w].st = "live")
                  => ccxt_workers'[w].pc = "sleep_paused"]_vars

\* A task that published before is in its pause sleep, the flag set.
C12_Witness ==
    /\ ccxt_streaming_paused
    /\ ccxt_stream_queue # <<>>
    /\ \E w \in RunnableIds : ccxt_workers[w].pc = "sleep_paused"

\* C13: a PAUSE or RESUME message, whatever symbol and interval it carries,
\* changes nothing but the pause flag: the registry, the task map, the tasks
\* and the control loop itself are as before, in both providers.
C13_PauseResumeFrame ==
    [][/\ provider = "ccxt" =>
            ((\/ ccxt_streaming_paused' # ccxt_streaming_paused
              \/ \E msg \in [action : {"PAUSE", "RESUME"}, symbol : CcxtSymbols,
                             interval : CcxtIntervals] :
                   CcxtProcessSubscriptions(msg))
             => UNCHANGED <<ccxt_active_subscriptions, ccxt_stream_tasks,
                            ccxt_workers, ccxt_ingest, ccxt_stream_queue>>)
       /\ provider = "yahoo-finance" =>
            ((\/ yf_streaming_paused' # yf_streaming_paused
              \/ \E msg \in [action : {"PAUSE", "RESUME"},
                             symbol : {"AAA", "aaa", YfNoSymbol},
                             interval : YfIntervals] :
                   YfProcessSubscriptions(msg))
             => UNCHANGED <<yf_active_subscriptions, yf_last_prices, yf_loop,
                            yf_ingest>>)]_vars

\* The flag is set while a subscription is registered and its task is live.
C13_Witness ==
    /\ ccxt_streaming_paused
    /\ SubscriptionKey(SymBinanceX, "1m") \in ccxt_active_subscriptions
    /\ \E w \in RunnableIds : WorkerKey(w) = SubscriptionKey(SymBinanceX, "1m")

\* C14: PAUSE applied to an unpaused session sets the flag and leaves every
\* other part of the state as it is, and the RESUME applied next clears the
\* flag and leaves every other part as it is: with no step of a worker or of
\* the polling loop between the two, the state after RESUME is the state
\* before PAUSE, and so is everything the session emits from there on.
C14_PauseThenResumeIsIdentity ==
    [][/\ \A msg \in [action : {"PAUSE", "RESUME"}, symbol : CcxtSymbols \ {SymEmpty},
                      interval : CcxtIntervals] :
            (CcxtProcessSubscriptions(msg)
             /\ ccxt_streaming_paused = (msg.action = "RESUME"))
            => /\ ccxt_streaming_paused' = ~ccxt_streaming_paused
               /\ UNCHANGED <<ccxt_active_subscriptions, ccxt_stream_tasks,
                              ccxt_stream_queue, ccxt_exchanges, ccxt_has,
                              ccxt_workers, ccxt_ingest, ccxt_session>>
       /\ \A msg \in [action : {"PAUSE", "RESUME"}, symbol : {"AAA", "aaa", YfNoSymbol},
                      interval : YfIntervals] :
            (YfProcessSubscriptions(msg)
             /\ yf_streaming_paused = (msg.action = "RESUME"))
            => /\ yf_streaming_paused' = ~yf_streaming_paused
               /\ UNCHANGED <<yf_active_subscriptions, yf_last_prices,
                              yf_consecutive_failures, yf_in_cooldown, yf_loop,
                              yf_ingest, yf_session>>]_vars

\* PAUSE has just been applied to a polling session that had emitted a point
\* and has a fetch in flight: the loop has not run since.
C14_Witness ==
    /\ yf_streaming_paused
    /\ yf_loop.pc = "request"
    /\ yf_last_prices # <<>>

C16_FailureAbsorbed ==
    [][/\ \A w \in WorkerIds :
            /\ WorkerError(w) =>
                 /\ UNCHANGED <<ccxt_stream_queue, ccxt_session, ccxt_stream_tasks,
                                ccxt_active_subscriptions>>
                 /\ ccxt_workers'[w] = [ccxt_workers[w] EXCEPT !.pc = "sleep_error"]
            /\ (/\ WorkerWake(w)
                /\ ccxt_workers[w].pc = "sleep_error"
                /\ WorkerKey(w) \in ccxt_active_subscriptions
                /\ ~ccxt_streaming_paused)
               => ccxt_workers'[w].pc \in {"watch_ohlcv", "watch_ticker"}
       /\ (/\ yf_loop.pc = "request"
           /\ yf_consecutive_failures'[yf_loop.symbol]
                > yf_consecutive_failures[yf_loop.symbol])
          => /\ yf_loop' = [yf_loop EXCEPT !.pc = "sleep_symbol", !.point = <<>>]
             /\ UNCHANGED <<yf_active_subscriptions, yf_last_prices, yf_session,
                            yf_ingest>>
       /\ (/\ YfIterate(TRUE)
           /\ yf_loop'.symbol = yf_loop.symbol
           /\ yf_loop'.seen # yf_loop.seen
           /\ yf_consecutive_failures[yf_loop.symbol] \in 1..(MaxConsecutiveFailures - 1))
          => yf_loop'.pc \in {"acquire", "request"}]_vars

\* After two failed fetches of AAA the loop is fetching it again.
C16_Witness ==
    /\ yf_consecutive_failures["AAA"] = 2
    /\ yf_loop.pc = "request"
    /\ yf_loop.symbol = "AAA"
    /\ yf_session = "open"

\* C17: a control message without a symbol is dropped by the control loop of
\* either provider: whatever its action, the registry, the pause flag, the
\* tasks and the control loop are as before.
C17_NoSymbolDropped ==
    [][/\ \A msg \in [action : Actions, symbol : {SymEmpty}, interval : CcxtIntervals] :
            CcxtProcessSubscriptions(msg) =>
               UNCHANGED <<ccxt_active_subscriptions, ccxt_streaming_paused,
                           ccxt_stream_tasks, ccxt_workers, ccxt_ingest>>
       /\ \A msg \in [action : Actions, symbol : {YfNoSymbol}, interval : YfIntervals] :
            YfProcessSubscriptions(msg) =>
               UNCHANGED <<yf_active_subscriptions, yf_streaming_paused, yf_ingest>>]_vars

\* The polling registry holds the empty symbol, and the loop is fetching it.
C17_EmptySymbolPolled ==
    /\ YfNoSymbol \in RegSymbols(yf_active_subscriptions)
    /\ yf_loop.pc = "request"
    /\ yf_loop.symbol = YfNoSymbol

\* C18: a SUBSCRIBE whose symbol is not in EXCHANGE:SYMBOL form, or names an
\* unknown exchange, leaves the active-subscription set, the task map and the
\* tasks as they were: the rejected key is not recorded.
C18_RejectedSubscribeLeavesNoTrace ==
    [][\A msg \in [action : {"SUBSCRIBE"}, symbol : {SymNoColon, SymUnknown},
                   interval : CcxtIntervals] :
         CcxtProcessSubscriptions(msg) =>
            /\ SubscriptionKey(msg.symbol, msg.interval) \notin ccxt_active_subscriptions'
            /\ UNCHANGED <<ccxt_active_subscriptions, ccxt_stream_tasks, ccxt_workers>>]_vars

\* A key of an unknown exchange is in the active-subscription set, no task for it.
C18_RejectedKeyRecorded ==
    /\ SubscriptionKey(SymUnknown, "1m") \in ccxt_active_subscriptions
    /\ ccxt_stream_tasks = <<>>
    /\ ccxt_ingest.pc = "failed"

\* C19: a historical request with a positive limit yields at most limit points,
\* however many bars the upstream returns, in each of the three providers.
C19_HistoricalLimit ==
    hist.limit > 0 => hist.emitted <= hist.limit

\* The CCXT generator is at the yield that reaches its limit of 2, with bars
\* of the page still to come.
C19_Witness ==
    /\ provider = "ccxt"
    /\ hist.pc = "yield"
    /\ hist.limit = 2
    /\ hist.emitted = 2
    /\ hist.page # <<>>
    /\ Head(hist.page) <= hist.end_ms

\* C20: a polling cycle works on a snapshot: while a cycle is under way, no
\* step changes the interval sets the cycle iterates, and the loop never fails.
C20_CycleWorksOnSnapshot ==
    [][/\ yf_loop'.pc # "crashed"
       /\ (/\ yf_loop.subscriptions # <<>>
           /\ Len(yf_loop'.subscriptions) = Len(yf_loop.subscriptions))
          => \A n \in 1..Len(yf_loop.subscriptions) : SnapshotSet(n)' = SnapshotSet(n)]_vars

\* The loop has failed after a SUBSCRIBE added a second interval to the set the
\* cycle was iterating.
C20_CrashedBySubscribe ==
    /\ yf_loop.pc = "crashed"
    /\ RegIntervals(yf_active_subscriptions, "AAA") = {"1m", "5m"}
    /\ yf_stopped = {}

\* C21: in an open CCXT session whose control loop has handled its messages
\* without failing and is not inside a handler, every active key has a task
\* that can run and serves it, and every task that can run serves an active key.
C21_KeysAndWorkersMatch ==
    (ccxt_session = "open" /\ ccxt_ingest.pc \in {"idle", "done"}) =>
        /\ \A k \in ccxt_active_subscriptions :
             \E w \in RunnableIds : WorkerKey(w) = k
        /\ \A w \in RunnableIds : WorkerKey(w) \in ccxt_active_subscriptions

\* Two keys that differ in the case of the exchange prefix are active, and one
\* task serves the stream key they share.
C21_TwoKeysOneWorker ==
    /\ ccxt_session = "open"
    /\ SubscriptionKey(SymBinanceX, "1m") \in ccxt_active_subscriptions
    /\ SubscriptionKey(SymbinanceX, "1m") \in ccxt_active_subscriptions
    /\ Cardinality(RunnableIds) = 1
    /\ DOMAIN ccxt_stream_tasks = {StreamKey(SymBinanceX, "1m")}

\* C22: a stream task that can run ends only when its key is no longer active
\* (a cancelled task ends by its cancellation): no step ends a task that is not
\* cancelled while its key is active.
C22_WorkerStopsOnlyWhenUnsubscribed ==
    [][\A w \in WorkerIds :
         (w \in RunnableIds /\ ccxt_workers'[w].st = "free")
         => WorkerKey(w) \notin ccxt_active_subscriptions]_vars

\* The key of a market the exchange does not list is active, the task map still
\* holds its task, and the task has ended.
C22_KeyActiveWorkerGone ==
    /\ ccxt_session = "open"
    /\ SubscriptionKey(SymBinanceZ, "1m") \in ccxt_active_subscriptions
    /\ StreamKey(SymBinanceZ, "1m") \in DOMAIN ccxt_stream_tasks
    /\ ccxt_workers[ccxt_stream_tasks[StreamKey(SymBinanceZ, "1m")]].st = "free"

\* C23: the control loop survives a rejected message: after a SUBSCRIBE whose
\* symbol is not in EXCHANGE:SYMBOL form, or names an unknown exchange, it is
\* still reading its input.
C23_IngestSurvivesRejectedMessage ==
    [][\A msg \in [action : {"SUBSCRIBE"}, symbol : {SymNoColon, SymUnknown},
                   interval : CcxtIntervals] :
         CcxtProcessSubscriptions(msg) => ccxt_ingest'.pc = "idle"]_vars

\* The control loop has ended with an exception in an open session: no further
\* message is read.
C23_IngestDead ==
    /\ ccxt_session = "open"
    /\ ccxt_ingest.pc = "failed"
    /\ SubscriptionKey(SymNoColon, "1m") \in ccxt_active_subscriptions
    /\ ~ENABLED (\E msg \in CcxtMessagesAny : CcxtProcessSubscriptions(msg))

\* C24: a fetch that returns a bar leaves the symbol's failure counter at 0,
\* whether the bar is emitted or dropped as unchanged.
C24_SuccessResetsCounter ==
    [][(yf_loop.pc = "request" /\ yf_loop'.point # <<>>)
       => yf_consecutive_failures'[yf_loop.symbol] = 0]_vars

\* A fetch has returned a bar equal to the last one emitted, after a failure.
C24_UnchangedBarAfterFailure ==
    /\ yf_loop.pc = "sleep_symbol"
    /\ yf_loop.point # <<>>
    /\ yf_consecutive_failures[yf_loop.symbol] = 1
    /\ yf_streak[yf_loop.symbol] = 0

\* C25: a symbol the breaker passes over is left alone for the whole cycle: the
\* step that passes it over sets its counter to 0, and no fetch of the symbol
\* starts later in that cycle.
C25_SkippedForWholeCycle ==
    [][/\ yf_loop'.skipped \ yf_loop.skipped # {}
          => yf_consecutive_failures'[yf_loop.symbol] = 0
       /\ (yf_loop.pc = "iter" /\ yf_loop'.pc \in {"acquire", "request"})
          => yf_loop.symbol \notin yf_loop.skipped]_vars

\* The breaker has passed AAA over at its first interval and the same cycle is
\* fetching AAA's second interval.
C25_FetchAfterSkip ==
    /\ yf_loop.pc = "request"
    /\ yf_loop.symbol = "AAA"
    /\ "AAA" \in yf_loop.skipped
    /\ Cardinality(yf_loop.seen) = 2

\* C26: the breaker keeps one counter per symbol: a step changes no counter
\* but that of the symbol the loop is at, and whether a due key is passed over
\* depends on the counter of its own symbol alone.
C26_NoCrossSymbolEffect ==
    [][/\ \A s \in DOMAIN yf_consecutive_failures :
            s # yf_loop.symbol =>
               yf_consecutive_failures'[s] = yf_consecutive_failures[s]
       /\ (/\ YfIterate(TRUE)
           /\ yf_loop'.symbol = yf_loop.symbol
           /\ yf_loop'.seen # yf_loop.seen)
          => (yf_loop.symbol \in yf_loop'.skipped \ yf_loop.skipped
              <=> yf_consecutive_failures[yf_loop.symbol] >= MaxConsecutiveFailures)]_vars

\* AAA has failed three times and the loop is fetching BBB, which has been
\* fetched with success before.
C26_Witness ==
    /\ yf_consecutive_failures["AAA"] = 3
    /\ yf_consecutive_failures["BBB"] = 0
    /\ yf_loop.pc = "request"
    /\ yf_loop.symbol = "BBB"
    /\ YfKey("BBB", "1m") \in DOMAIN yf_last_prices

\* C27: while a cooldown is active _wait_for_rate_limit releases no caller,
\* whether the caller entered it after the cooldown was set or was asleep
\* inside it when the cooldown was set.
C27_CooldownDominates ==
    [][\A c \in Callers :
         (/\ rl_callers[c].pc # "request"
          /\ rl_callers'[c].pc = "request")
            => rl_now' >= rl_rate_limit_until']_vars

\* A request has just been released at a time inside the cooldown.
C27_ReleasedInCooldown ==
    /\ \E c \in Callers : rl_callers[c].pc = "request"
    /\ rl_last_request_time = rl_now
    /\ rl_now < rl_rate_limit_until

\* C28: in one polling session a fetch of a key starts no sooner than the
\* key's poll delay (600 s for an interval not in the table) after the fetch
\* of that key before it, whatever that fetch came to.
C28_Cadence ==
    (cadence.pc = "fetch" /\ cadence.prev # 0)
       => cadence.now - cadence.prev >= PollDelay(cadence.key[2])

\* AAA at "3m", an interval the table does not have, is fetched 600 s after
\* the fetch of it before.
C28_Witness ==
    /\ cadence.pc = "fetch"
    /\ cadence.key = <<"AAA", "3m">>
    /\ cadence.prev # 0
    /\ cadence.now - cadence.prev = 600

\* The keys a client of the CCXT provider subscribes to.
C29_Keys == {SubscriptionKey(m.symbol, m.interval) : m \in CcxtMessages}

\* After RESUME has been applied while the worker of a registered key was in
\* its pause sleep, on an exchange with a feed, a worker of that key comes to
\* a watch call, unless the session is paused again, the key is unsubscribed
\* or the session ends.
C29_ResumedWorkerCallsAgain ==
    \A k \in C29_Keys :
       (/\ ccxt_has # "none"
        /\ ccxt_session = "open"
        /\ ~ccxt_streaming_paused
        /\ k \in ccxt_active_subscriptions
        /\ \E w \in RunnableIds : /\ WorkerKey(w) = k
                                  /\ ccxt_workers[w].pc = "sleep_paused")
       ~> (\/ \E w \in RunnableIds : /\ WorkerKey(w) = k
                                     /\ ccxt_workers[w].pc \in {"watch_ohlcv", "watch_ticker"}
           \/ ccxt_streaming_paused
           \/ k \notin ccxt_active_subscriptions
           \/ ccxt_session # "open")

\* A step that unsubscribes the key of a worker in its pause sleep, or closes
\* its session, requests the cancellation of the worker, and a worker whose
\* cancellation is requested ends.
C29_PausedWorkerTerminates ==
    /\ [][\A w \in WorkerIds :
            (/\ w \in RunnableIds
             /\ ccxt_workers[w].pc = "sleep_paused"
             /\ \/ WorkerKey(w) \notin ccxt_active_subscriptions'
                \/ ccxt_session' = "closed")
               => ccxt_workers'[w].cancel]_vars
    /\ \A w \in WorkerIds :
          (w \in LiveIds /\ ccxt_workers[w].cancel) ~> (ccxt_workers[w].st = "free")

\* C29: paused workers stay live. After RESUME every worker whose subscription
\* is still registered makes an upstream call again, and a paused worker ends
\* when its key is unsubscribed or its session is cancelled.
C29_PausedWorkersStayLive ==
    /\ C29_ResumedWorkerCallsAgain
    /\ C29_PausedWorkerTerminates

\* C30: the consumer loop of a CCXT session ends only when the stream is
\* closed. A read timeout and the end of the control input leave the session
\* open and every worker as it is, and once the input has ended a worker in a
\* watch call can still publish its point.
C30_ConsumerLoopGoesOn ==
    /\ [][/\ (ccxt_session = "open" /\ ccxt_session' # "open") => CcxtSessionClose
          /\ (CcxtEndOfInput \/ CcxtConsumerTimeout)
               => /\ ccxt_session' = "open"
                  /\ ccxt_workers' = ccxt_workers
                  /\ ccxt_stream_tasks' = ccxt_stream_tasks]_vars
    /\ [](\A w \in RunnableIds :
            (/\ ccxt_session = "open"
             /\ ccxt_ingest.pc = "done"
             /\ ccxt_workers[w].pc \in {"watch_ohlcv", "watch_ticker"}
             /\ Len(ccxt_stream_queue) < MaxQueue)
               => ENABLED WorkerPublish(w))

\* The control input has ended, the session is open with an empty queue (the
\* consumer's read times out), and a worker started before is in a watch call.
C30_Witness ==
    /\ ccxt_session = "open"
    /\ ccxt_ingest.pc = "done"
    /\ ccxt_stream_queue = <<>>
    /\ \E w \in RunnableIds : /\ ccxt_workers[w].pc = "watch_ohlcv"
                              /\ ENABLED WorkerPublish(w)

\* The steps the polling loop takes on its own, without its consumer.
C31_LoopStep ==
    \/ YfLoopTop
    \/ \E due \in BOOLEAN : YfIterate(due)
    \/ YfAcquired
    \/ YfSymbolDelayDone
    \/ \E q \in {QuoteBase}, poll_time \in PollTimes : YfResponseData(q, poll_time)

\* C31: a consumer that reads slowly never blocks the producer: while an
\* emitted point waits to be read, the polling loop can go on to its next step.
C31_SlowConsumerNeverBlocks ==
    (yf_session = "open" /\ yf_loop.pc = "yield") => ENABLED C31_LoopStep

\* AAA's point waits to be read while BBB, subscribed too, has never been
\* fetched, and nothing but the consumer can move the loop.
C31_LoopWaitsForConsumer ==
    /\ yf_session = "open"
    /\ yf_loop.pc = "yield"
    /\ yf_loop.symbol = "AAA"
    /\ "BBB" \in RegSymbols(yf_active_subscriptions)
    /\ \A interval \in YfIntervals : YfKey("BBB", interval) \notin DOMAIN yf_last_prices
    /\ ~ENABLED C31_LoopStep
    /\ ENABLED YfConsumerNext

\* C32: within one key the timestamps of the emitted points do not decrease:
\* a point is yielded only with a timestamp at or after that of the point
\* emitted for its key before it.
C32_TimestampsNonDecreasing ==
    [][(/\ yf_loop.pc = "request"
        /\ yf_loop'.pc = "yield"
        /\ YfKey(yf_loop.symbol, yf_loop.interval) \in DOMAIN yf_last_prices)
          => yf_loop'.point.timestamp
                >= yf_last_prices[YfKey(yf_loop.symbol, yf_loop.interval)].timestamp]_vars

\* C33: every tick built from a ticker satisfies low <= open <= high,
\* low <= close <= high and volume >= 0.
C33_TickIsValid ==
    tick.pc = "built" =>
       /\ tick.message.low <= tick.message.open
       /\ tick.message.open <= tick.message.high
       /\ tick.message.low <= tick.message.close
       /\ tick.message.close <= tick.message.high
       /\ tick.message.volume >= 0

\* A ticker with open 1 and last 2 and neither high nor low gives a tick
\* whose close is above its high.
C33_CloseAboveHigh ==
    /\ tick.pc = "built"
    /\ tick.ticker.open = 1
    /\ tick.ticker.last = 2
    /\ tick.ticker.high = None
    /\ tick.ticker.low = None
    /\ tick.message.high = 1
    /\ tick.message.close = 2

\* C34: registry and pause flag do not survive a session: when a stream is
\* opened after an earlier one was closed, no subscription is active and the
\* provider is not paused.
C34_NewSessionStartsClean ==
    [][(ccxt_session = "closed" /\ ccxt_session' = "open")
          => /\ ccxt_active_subscriptions' = {}
             /\ ~ccxt_streaming_paused']_vars

\* In a later stream the key of the earlier stream is still registered, with
\* the exchange loaded and no task at all, so that a SUBSCRIBE for the key
\* returns at once and starts no worker.
C34_StaleKeyBlocksSubscribe ==
    /\ ccxt_session = "open"
    /\ ccxt_ingest.pc = "idle"
    /\ SubscriptionKey(SymBinanceX, "1m") \in ccxt_active_subscriptions
    /\ "binance" \in ccxt_exchanges
    /\ ccxt_stream_tasks = <<>>
    /\ LiveIds = {}

\* C35: streams are isolated: a consumer is handed points of its own stream's
\* subscription only, and a control message of one stream does not change
\* whether the worker of the other stream's subscription produces.
C35_SessionIsolation ==
    /\ [](\A s \in Streams : shared.received[s] \subseteq {KeyOf(s)})
    /\ [][\A s \in Streams, action \in Actions :
            SharedControl(s, action)
               => \A t \in Streams \ {s} :
                     SharedProducing(KeyOf(t))' = SharedProducing(KeyOf(t))]_vars

\* The consumer of stream B has been handed a point of A's subscription,
\* while B never subscribed to anything.
C35_PointOfOtherStream ==
    /\ KeyOf("A") \in shared.received["B"]
    /\ shared.session["B"] = "open"
    /\ shared.received["A"] = {}
    /\ KeyOf("B") \notin shared.active_subscriptions

\* C36: after a key is unsubscribed and then subscribed again, the first fetch
\* of the key that returns a bar is emitted, even when the bar equals the last
\* point emitted for the key before the unsubscribe.
C36_FirstPollAfterResubscribeEmitted ==
    [][(/\ yf_loop.pc = "request"
        /\ yf_loop'.pc \in {"yield", "sleep_symbol"}
        /\ YfKey(yf_loop.symbol, yf_loop.interval) \in yf_renewed)
       => yf_loop'.pc = "yield"]_vars

\* The first fetch of a key subscribed again is in flight while the record of
\* the point emitted before its unsubscribe is still kept.
C36_RecordKeptAcrossResubscribe ==
    /\ yf_loop.pc = "request"
    /\ YfKey(yf_loop.symbol, yf_loop.interval) \in yf_renewed
    /\ YfKey(yf_loop.symbol, yf_loop.interval) \in DOMAIN yf_last_prices
    /\ yf_loop.interval \in RegIntervals(yf_active_subscriptions, yf_loop.symbol)

\* C37 as stated: CCXT historical pagination against pages holding only bars
\* at or after the requested since: the cursor strictly increases from one
\* request to the next and a further request is made only below end_time (so
\* the generator ends), no bar (timestamp) is yielded twice, and no yielded bar
\* is later than end_time.
C37_PaginationNeverRepeats ==
    /\ [](hist.pc = "yield" => hist.point <= hist.end_ms)
    /\ [][(hist.pc \in {"fetch", "yield"} /\ hist'.pc = "fetch")
          => hist.since_ms < hist'.since_ms /\ hist'.since_ms < hist.end_ms]_vars
    /\ [][(hist.pc \in {"fetch", "yield"} /\ hist'.emitted = hist.emitted + 1)
          => hist'.point \notin hist.seen]_vars

\* C37 amended: the same, where no bar is yielded twice as long as every page
\* of the call, besides holding only bars at or after the requested since,
\* has strictly increasing timestamps.
C37_SortedPaginationNeverRepeats ==
    /\ [](hist.pc = "yield" => hist.point <= hist.end_ms)
    /\ [][(hist.pc \in {"fetch", "yield"} /\ hist'.pc = "fetch")
          => hist.since_ms < hist'.since_ms /\ hist'.since_ms < hist.end_ms]_vars
    /\ [][(/\ hist.pc \in {"fetch", "yield"}
           /\ hist'.emitted = hist.emitted + 1
           /\ hist'.ascending)
          => hist'.point \notin hist.seen]_vars

\* The first bar of a second page of increasing timestamps is being yielded,
\* the cursor having moved past the last bar of the first page.
C37_SecondPage ==
    /\ provider = "ccxt"
    /\ hist.pc = "yield"
    /\ hist.ascending
    /\ hist.since_ms = 1
    /\ hist.seen = {0, 1}
    /\ hist.point = 1
    /\ hist.page # <<>>

\* C38: in the Yahoo registry no symbol is mapped to an empty interval set,
\* whatever control messages have been handled.
C38_NoEmptyIntervalSet ==
    \A n \in 1..Len(yf_active_subscriptions) :
        yf_active_subscriptions[n].intervals # {}

\* AAA 1m has been unsubscribed after a point of its own, which left AAA
\* without intervals: AAA is gone from the registry, BBB is still in it.
C38_EmptiedSymbolDeleted ==
    /\ YfKey("AAA", "1m") \in yf_stopped
    /\ "AAA" \notin RegSymbols(yf_active_subscriptions)
    /\ "BBB" \in RegSymbols(yf_active_subscriptions)

\* C39: in a polling session the consecutive-failure counter of every symbol
\* lies between 0 and the threshold, whatever the fetches give and whatever
\* control messages arrive.
C39_CounterWithinThreshold ==
    \A symbol \in DOMAIN yf_consecutive_failures :
        yf_consecutive_failures[symbol] \in 0..MaxConsecutiveFailures

\* The fetch that failed for the fifth time in a row has just brought the
\* counter of its symbol to the threshold.
C39_CounterAtThreshold ==
    /\ yf_session = "open"
    /\ yf_loop.pc = "sleep_symbol"
    /\ yf_loop.point = <<>>
    /\ yf_consecutive_failures[yf_loop.symbol] = MaxConsecutiveFailures
    /\ yf_streak[yf_loop.symbol] = MaxConsecutiveFailures
====
